---------------------------- MODULE Spec2Model ----------------------------
(***************************************************************************)
(* A model of the CountingBoats classifier pipeline                        *)
(* (counting_boats/utils/classifier.py and image_cutting_support.py):      *)
(*   - padding and tiling of one raster (create_padded_png,                *)
(*     get_required_padding, segment_image_for_classification),            *)
(*   - parsing of the detector's label files (parse_classifications),      *)
(*   - clustering and condensation (cluster, process_clusters, condense),  *)
(*   - the coordinate mapper forward and back (pixel2coord, coord2pixel),  *)
(*   - the orchestration per raster, per day and per directory             *)
(*     (process_tif, process_day, classify_directory, write_to_csv).       *)
(* Real numbers are exact rationals <<n, d>> in lowest terms; Euclidean    *)
(* distances are fixed-point numbers with DistScale units per pixel.       *)
(***************************************************************************)
EXTENDS Integers, Sequences, FiniteSets, TLC

VARIABLES
    TILE_SIZE,      \* cfg['TILE_SIZE']   (classifier.py:24)
    STRIDE,         \* cfg['STRIDE']      (classifier.py:25)
    tif,            \* the raster handed to detect_from_tif
    img,            \* the image opened by segment_image_for_classification
    pc,             \* position inside detect_from_tif / the tiler
    seg_i,          \* the tiler's row loop variable i
    seg_j,          \* the tiler's column loop variable j
    rects,          \* every (i, j, left, top, right, bottom) the loops visited
    tiles,          \* the tile files written to TEMP, in write order
    err,            \* the exception that ended the run, or "none"
    padding,        \* what get_required_padding returned, or NoPadding
    sub_pad,        \* the (leftPad, topPad) pixel2latlong subtracts, or NoPadding
    label_file,     \* the label file handed to parse_classifications
    parsed,         \* what parse_classifications returned or raised, or NotParsed
    allFiles,       \* os.listdir(directory): the entries of tif_dir, in its order
    days,           \* the days classify_directory has still to go through
    day,            \* the day being processed, or None
    files,          \* the rasters of that day, in the order of allFiles
    returns,        \* what process_tif returned for the files of the day so far
    last_tif,       \* the latest process_tif call: result and values on the way
    day_pass,       \* the day-level pass of process_day, or NoDayPass
    csv,            \* the lines of boat_detections.csv, or NoCsv
    processed,      \* the names of the rasters moved to tif_dir/processed
    classified,     \* the names of the rasters process_tif has returned for
    written,        \* the days whose detections write_to_csv has been called for
    phase,          \* position inside main / classify_directory / process_day
    failure,        \* the raster and the exception that ended the run, or NoFailure
    TEMP,           \* the directory Boat_Temp: whether it exists, and its tiles
    TEMP_PNG,       \* the directory Boat_Temp_PNG: whether it exists, and its pngs
    geo,            \* ds.GetGeoTransform() of the raster the mapper is called with
    pixel,          \* the pixel (x, y) handed to pixel2coord
    coord,          \* what pixel2coord returned, or None
    back,           \* what coord2pixel returned or raised for coord, or None
    detections,     \* the rows handed to cluster
    cut,            \* the cutoff handed to cluster
    tagged,         \* what cluster returned, or None
    reordered,      \* the rows in another order and what cluster returned for them
    condensed,      \* what process_clusters returned for tagged, or None
    history,        \* the rows of the history csv: order_id, aoi, date, order_status
    orders,         \* what planet_utils.get_orders() returns: id and state
    RawImages,      \* the names of the rasters in the raw-images directory
    calls           \* the PlanetDownload calls of the latest download run

tilerVars == <<TILE_SIZE, STRIDE, tif, img, pc, seg_i, seg_j, rects, tiles, err>>

padVars == <<padding, sub_pad>>

parseVars == <<label_file, parsed>>

dayVars == <<allFiles, days, day, files, returns, last_tif, day_pass, csv,
             processed, classified, written, phase, failure, TEMP, TEMP_PNG>>

mapVars == <<geo, pixel, coord, back>>

clusterVars == <<detections, cut, tagged, reordered, condensed>>

orderVars == <<history, orders, RawImages, calls>>

vars == <<tilerVars, padVars, parseVars, dayVars, mapVars, clusterVars, orderVars>>

(***************************************************************************)
(* Bounds of the model.                                                    *)
(***************************************************************************)
MaxDim == 5
MaxTile == 4

\* no image opened yet; `padded` tells a png made by create_padded_png from one
\* opened as it is
NoImage == [width |-> 0, height |-> 0, padL |-> 0, padT |-> 0, padR |-> 0,
            padB |-> 0, dark |-> FALSE, base |-> <<>>, padded |-> FALSE]

NoPadding == <<>>

NoFile == [name |-> <<>>, lines |-> <<>>, exists |-> TRUE]

NotParsed == [state |-> "none"]

NoTif == [file |-> <<>>, error |-> "none", moved |-> FALSE, all_cs |-> <<>>,
          classifications |-> <<>>, low_confidence |-> <<>>,
          static_clusters |-> <<>>, moving_clusters |-> <<>>,
          static_boats |-> <<>>, moving_boats |-> <<>>]

NoDayPass == [all_static_boats |-> <<>>, all_moving_boats |-> <<>>,
              static_clusters |-> <<>>, moving_clusters |-> <<>>,
              static_boats |-> <<>>, moving_boats |-> <<>>, done |-> FALSE]

NoFailure == [file |-> <<>>, error |-> "none"]

None == <<>>

NoCsv == <<[kind |-> "no file"]>>

\* a directory that does not exist
NoDir == [exists |-> FALSE, files |-> {}]

\* the orchestrator at rest
DayIdle ==
    /\ allFiles = <<>>
    /\ days = {}
    /\ day = None
    /\ files = <<>>
    /\ returns = <<>>
    /\ last_tif = NoTif
    /\ day_pass = NoDayPass
    /\ csv = NoCsv
    /\ processed = {}
    /\ classified = {}
    /\ written = {}
    /\ phase = "idle"
    /\ failure = NoFailure
    /\ TEMP = NoDir
    /\ TEMP_PNG = NoDir

\* a function that has not been called yet has returned nothing
NotCalled == [called |-> FALSE, error |-> "none", value |-> <<>>]

Returned(v) == [called |-> TRUE, error |-> "none", value |-> v]

Raised(e) == [called |-> TRUE, error |-> e, value |-> <<>>]

\* the mapper at rest
MapIdle ==
    /\ geo = [c |-> <<0, 1>>, a |-> <<1, 1>>, b |-> <<0, 1>>,
              f |-> <<0, 1>>, d |-> <<0, 1>>, e |-> <<1, 1>>]
    /\ pixel = <<0, 0>>
    /\ coord = NotCalled
    /\ back = NotCalled

\* no order placed, nothing downloaded
OrdersIdle ==
    /\ history = <<>>
    /\ orders = <<>>
    /\ RawImages = {}
    /\ calls = {}

\* the clusterer and the condenser at rest
ClusterIdle ==
    /\ detections = <<>>
    /\ cut = <<0, 1>>
    /\ tagged = NotCalled
    /\ reordered = [at |-> 0, rows |-> <<>>, tagged |-> NotCalled]
    /\ condensed = NotCalled

(***************************************************************************)
(* Python arithmetic on non-negative integers.                             *)
(***************************************************************************)
\* math.ceil(a / b)
PyCeilDiv(a, b) == (a + b - 1) \div b

\* math.floor(a / b), int(a / b)
PyFloorDiv(a, b) == a \div b

\* len(range(0, n))
RangeLen(n) == IF n > 0 THEN n ELSE 0

(***************************************************************************)
(* float64 values, modelled as exact rationals <<n, d>>, d > 0, in lowest  *)
(* terms (so equal numbers are equal values).                              *)
(***************************************************************************)
RECURSIVE Gcd(_, _)
Gcd(a, b) == IF b = 0 THEN a ELSE Gcd(b, a % b)

Rat(n, d) ==
    LET abs(k) == IF k < 0 THEN -k ELSE k
        g == Gcd(abs(n), abs(d))
        sgn == IF d < 0 THEN -1 ELSE 1
    IN  <<(sgn * n) \div g, (sgn * d) \div g>>

RInt(k) == <<k, 1>>
RAdd(a, b) == Rat(a[1] * b[2] + b[1] * a[2], a[2] * b[2])
RSub(a, b) == Rat(a[1] * b[2] - b[1] * a[2], a[2] * b[2])
RMul(a, b) == Rat(a[1] * b[1], a[2] * b[2])
RDiv(a, b) == Rat(a[1] * b[2], a[2] * b[1])
RLt(a, b) == a[1] * b[2] < b[1] * a[2]
RLe(a, b) == a[1] * b[2] <= b[1] * a[2]

RECURSIVE Pow10(_)
Pow10(k) == IF k = 0 THEN 1 ELSE 10 * Pow10(k - 1)

(***************************************************************************)
(* Strings.  A string is the sequence of its characters; a file name is    *)
(* the sequence of its "_"-separated tokens, without its extension.        *)
(***************************************************************************)
DigitChars == <<"0", "1", "2", "3", "4", "5", "6", "7", "8", "9">>

DigitValue(c) == (CHOOSE k \in 1..Len(DigitChars) : DigitChars[k] = c) - 1

IsDigit(c) == \E k \in 1..Len(DigitChars) : DigitChars[k] = c

\* str(n) for n >= 0
RECURSIVE str(_)
str(n) ==
    IF n < 10 THEN <<DigitChars[n + 1]>>
    ELSE str(n \div 10) \o <<DigitChars[(n % 10) + 1]>>

\* int(s) succeeds on a non-empty string of digits
is_int(s) == Len(s) > 0 /\ \A k \in 1..Len(s) : IsDigit(s[k])

\* int(s)
RECURSIVE int(_)
int(s) ==
    IF Len(s) = 0 THEN 0
    ELSE 10 * int(SubSeq(s, 1, Len(s) - 1)) + DigitValue(s[Len(s)])

(***************************************************************************)
(* Padding.                                                                *)
(***************************************************************************)
\* create_padded_png: the margins handed to add_margin, as (left, right, top, bottom)
create_padded_png_margins(width, height, tile_size, stride) ==
    LET pad           == tile_size - stride
        widthPadding  == (PyCeilDiv(width, stride) * stride) - width
        heightPadding == (PyCeilDiv(height, stride) * stride) - height
        leftPad       == PyFloorDiv(widthPadding, 2)
        rightPad      == PyCeilDiv(widthPadding, 2)
        topPad        == PyFloorDiv(heightPadding, 2)
        bottomPad     == PyCeilDiv(heightPadding, 2)
    IN  <<pad + leftPad, pad + rightPad, pad + topPad, pad + bottomPad>>

\* add_margin(pil_img, left, right, top, bottom, (0, 0, 0)): the image pasted at
\* (left, top) into a black image of the new size
add_margin(raster, left, right, top, bottom) ==
    [width  |-> raster.width + right + left,
     height |-> raster.height + top + bottom,
     padL |-> left, padR |-> right, padT |-> top, padB |-> bottom,
     dark |-> raster.dark, base |-> raster.base, padded |-> TRUE]

\* create_padded_png: the padded png saved for classification
create_padded_png(raster, tile_size, stride) ==
    LET m == create_padded_png_margins(raster.width, raster.height, tile_size, stride)
    IN  add_margin(raster, m[1], m[2], m[3], m[4])

\* get_required_padding with the floor and the ceiling halves exchanged
get_required_padding_swapped(width, height, tilesize, stride) ==
    LET pad           == tilesize - stride
        widthPadding  == (PyCeilDiv(width, stride) * stride) - width
        heightPadding == (PyCeilDiv(height, stride) * stride) - height
    IN  <<PyCeilDiv(widthPadding, 2) + pad, PyFloorDiv(widthPadding, 2) + pad,
          PyCeilDiv(heightPadding, 2) + pad, PyFloorDiv(heightPadding, 2) + pad>>

\* get_required_padding without the tile_size - stride margin
get_required_padding_nomargin(width, height, tilesize, stride) ==
    LET widthPadding  == (PyCeilDiv(width, stride) * stride) - width
        heightPadding == (PyCeilDiv(height, stride) * stride) - height
    IN  <<PyFloorDiv(widthPadding, 2), PyCeilDiv(widthPadding, 2),
          PyFloorDiv(heightPadding, 2), PyCeilDiv(heightPadding, 2)>>

\* get_required_padding: (L, R, T, B)
get_required_padding(width, height, tilesize, stride) ==
    LET pad           == tilesize - stride
        widthPadding  == (PyCeilDiv(width, stride) * stride) - width
        heightPadding == (PyCeilDiv(height, stride) * stride) - height
        leftPad       == PyFloorDiv(widthPadding, 2)
        rightPad      == PyCeilDiv(widthPadding, 2)
        topPad        == PyFloorDiv(heightPadding, 2)
        bottomPad     == PyCeilDiv(heightPadding, 2)
    IN  <<leftPad + pad, rightPad + pad, topPad + pad, bottomPad + pad>>

\* pixel2latlong: leftPad, _, topPad, _ = ics.get_required_padding(...)
pixel2latlong_pads(width, height, tile_size, stride) ==
    LET g == get_required_padding(width, height, tile_size, stride)
    IN  [leftPad |-> g[1], topPad |-> g[3]]

(***************************************************************************)
(* The tiler: segment_image_for_classification.                            *)
(***************************************************************************)
\* the preconditions without the check of tile_size against stride
segment_precondition_image_only(width, height, tile_size, stride) ==
    IF width % stride # 0 \/ height % stride # 0
        THEN "The image is not exactly divisible by the desired size of subset images"
    ELSE "none"

\* the preconditions checked before the loops; the message raised, or "none"
segment_precondition(width, height, tile_size, stride) ==
    IF width % stride # 0 \/ height % stride # 0
        THEN "The image is not exactly divisible by the desired size of subset images"
    ELSE IF tile_size % stride # 0
        THEN "The subset image size indicated is not divisible by the input overlap size"
    ELSE "none"

\* len(range(0, int(height / stride) - int(tile_size / stride)))
segment_rows(height, tile_size, stride) ==
    RangeLen(PyFloorDiv(height, stride) - PyFloorDiv(tile_size, stride))

\* len(range(0, 1 + int(width / stride) - int(tile_size / stride)))
segment_cols(width, tile_size, stride) ==
    RangeLen(1 + PyFloorDiv(width, stride) - PyFloorDiv(tile_size, stride))

\* the crop box with the row and the column exchanged
tile_rect_transposed(i, j, tile_size, stride) ==
    [i |-> i, j |-> j,
     left |-> i * stride, top |-> j * stride,
     right |-> i * stride + tile_size, bottom |-> j * stride + tile_size]

\* the crop box of tile (i, j)
tile_rect(i, j, tile_size, stride) ==
    [i |-> i, j |-> j,
     left |-> j * stride, top |-> i * stride,
     right |-> j * stride + tile_size, bottom |-> i * stride + tile_size]

\* openImage.getpixel((x, y)) == (0, 0, 0): the margin added by add_margin is
\* black, and so is a raster without data
is_black(image, x, y) ==
    \/ image.dark
    \/ x < image.padL \/ x >= image.width - image.padR
    \/ y < image.padT \/ y >= image.height - image.padB

\* range(0, tile_size - 1, 8)
border_samples(tile_size) == {f \in 0..(tile_size - 2) : f % 8 = 0}

\* percentageEmpty and total after the border loop of one tile
border_counts(image, r, tile_size) ==
    LET S == border_samples(tile_size)
        n(P(_)) == Cardinality({f \in S : P(f)})
        topE(f)    == is_black(image, r.left + f, r.top)
        leftE(f)   == is_black(image, r.left, r.top + f)
        rightE(f)  == is_black(image, r.right - 1, r.top + f)
        bottomE(f) == is_black(image, r.left + f, r.bottom - 1)
    IN  [percentageEmpty |-> n(topE) + n(leftE) + n(rightE) + n(bottomE),
         total |-> 4 * Cardinality(S)]

\* percentageEmpty / total > 0.93
is_empty_tile(c) == 100 * c.percentageEmpty > 93 * c.total

\* savePath + "_" + str(i) + "_" + str(j) + ".png", as its "_"-separated tokens
tile_name(base, i, j) == base \o <<str(i), str(j)>>

\* the loop variables after the body of (i, j): <<i, j, finished>>
next_index(i, j, rows, cols) ==
    IF j + 1 < cols THEN <<i, j + 1, FALSE>>
    ELSE IF i + 1 < rows THEN <<i + 1, 0, FALSE>>
    ELSE <<i, j, TRUE>>

(***************************************************************************)
(* The detection parser: classification_file_info, parse_classifications.  *)
(* A line is the sequence of its " "-separated fields; a field is a        *)
(* decimal literal [mant, exp] standing for mant / 10^exp.                 *)
(***************************************************************************)
\* float(field)
to_float(field) == Rat(field.mant, Pow10(field.exp))

\* classification_file_info with the row and the column read the other way round
classification_file_info_swapped(file, stride) ==
    LET fname == file.name
        n == Len(fname)
    IN  IF n < 2 THEN [error |-> "IndexError"]
        ELSE IF ~is_int(fname[n - 1]) \/ ~is_int(fname[n])
            THEN [error |-> "ValueError"]
        ELSE IF ~file.exists THEN [error |-> "FileNotFoundError"]
        ELSE [error |-> "none",
              across |-> int(fname[n - 1]) * stride,
              down |-> int(fname[n]) * stride,
              lines |-> file.lines]

\* classification_file_info: across, down, lines, or the exception of int()
\* or of open(file)
classification_file_info(file, stride) ==
    LET fname == file.name
        n == Len(fname)
    IN  IF n < 2 THEN [error |-> "IndexError"]
        ELSE IF ~is_int(fname[n - 1]) \/ ~is_int(fname[n])
            THEN [error |-> "ValueError"]
        ELSE IF ~file.exists THEN [error |-> "FileNotFoundError"]
        ELSE [error |-> "none",
              across |-> int(fname[n]) * stride,
              down |-> int(fname[n - 1]) * stride,
              lines |-> file.lines]

\* np.array([line.split(" ") for line in lines]) is two-dimensional only when
\* every line has the same number of fields; with fewer than five of them
\* classifications[:, 5] is out of bounds, and fields after the sixth are
\* left unread
is_rectangular(lines) == \A k \in 1..Len(lines) : Len(lines[k]) = Len(lines[1])

\* one row moved around and scaled: x, y, conf, class, w, h
parse_row(fields, across, down, tile_size) ==
    <<RAdd(RMul(to_float(fields[2]), RInt(tile_size)), RInt(across)),
      RAdd(RMul(to_float(fields[3]), RInt(tile_size)), RInt(down)),
      IF Len(fields) = 5 THEN RInt(1) ELSE to_float(fields[6]),
      to_float(fields[1]),
      RMul(to_float(fields[4]), RInt(tile_size)),
      RMul(to_float(fields[5]), RInt(tile_size))>>

\* parse_classifications: the rows, or the exception raised
parse_classifications(file, tile_size, stride) ==
    LET info == classification_file_info(file, stride)
    IN  IF info.error # "none" THEN [state |-> "raised", error |-> info.error]
        ELSE IF Len(info.lines) = 0 THEN [state |-> "ok", rows |-> <<>>]
        ELSE IF ~is_rectangular(info.lines)
            THEN [state |-> "raised", error |-> "ValueError"]
        ELSE IF Len(info.lines[1]) < 5
            THEN [state |-> "raised", error |-> "IndexError"]
        ELSE [state |-> "ok",
              rows |-> [k \in 1..Len(info.lines) |->
                          parse_row(info.lines[k], info.across, info.down, tile_size)]]

(***************************************************************************)
(* The clusterer: cluster, with scipy's pdist, linkage(.., 'average') and  *)
(* fcluster(.., criterion='distance').  A row is the sequence of its       *)
(* columns x, y, confidence, class, width, height[, file][, cluster].      *)
(***************************************************************************)
\* fixed-point resolution of a distance: units per pixel (or per degree)
DistScale == 100

\* the largest r in lo..hi with r * r <= v
RECURSIVE ISqrtIn(_, _, _)
ISqrtIn(v, lo, hi) ==
    IF lo >= hi THEN lo
    ELSE LET mid == (lo + hi + 1) \div 2
         IN  IF mid * mid <= v THEN ISqrtIn(v, mid, hi) ELSE ISqrtIn(v, lo, mid - 1)

ISqrt(v) == ISqrtIn(v, 0, IF v > 46340 THEN 46340 ELSE v)

\* the square root of a rational, in fixed point
fixed_sqrt(d2) == Rat(ISqrt((d2[1] * DistScale * DistScale) \div d2[2]), DistScale)

\* the length of (dx, dy)
norm(dx, dy) == fixed_sqrt(RAdd(RMul(dx, dx), RMul(dy, dy)))

\* metric 'sqeuclidean', for comparison: no square root taken
euclidean_squared(p, q) ==
    RAdd(RMul(RSub(p[1], q[1]), RSub(p[1], q[1])),
         RMul(RSub(p[2], q[2]), RSub(p[2], q[2])))

\* pdist(points, metric='euclidean') for one pair of rows
euclidean(p, q) == norm(RSub(p[1], q[1]), RSub(p[2], q[2]))

\* the distance matrix of the rows
pdist(rows) ==
    [a \in 1..Len(rows) |-> [b \in 1..Len(rows) |-> euclidean(rows[a], rows[b])]]

\* linkage 'single', for comparison: the nearer of the two
average_linkage_single(d_xi, d_yi, nx, ny) == IF RLe(d_xi, d_yi) THEN d_xi ELSE d_yi

\* linkage 'average': the distance from cluster i to the merge of x and y
average_linkage(d_xi, d_yi, nx, ny) ==
    RDiv(RAdd(RMul(RInt(nx), d_xi), RMul(RInt(ny), d_yi)), RInt(nx + ny))

\* nn_chain: the scan for the nearest neighbour of x, from cluster a on; y and
\* cur are the best so far (cur.inf: nothing yet)
RECURSIVE nn_scan(_, _, _, _, _, _, _)
nn_scan(D, size, n, x, a, y, cur) ==
    IF a > n THEN [y |-> y, d |-> cur.d]
    ELSE IF size[a] = 0 \/ x = a THEN nn_scan(D, size, n, x, a + 1, y, cur)
    ELSE IF cur.inf \/ RLt(D[x][a], cur.d)
        THEN nn_scan(D, size, n, x, a + 1, a, [inf |-> FALSE, d |-> D[x][a]])
    ELSE nn_scan(D, size, n, x, a + 1, y, cur)

\* nn_chain: the nearest neighbour of the end of the chain; the element before
\* the end is the one to beat
nn_nearest(D, size, n, chain, L) ==
    IF L > 1
        THEN nn_scan(D, size, n, chain[L], 1, chain[L - 1],
                     [inf |-> FALSE, d |-> D[chain[L]][chain[L - 1]]])
    ELSE nn_scan(D, size, n, chain[L], 1, 0, [inf |-> TRUE, d |-> RInt(0)])

\* nn_chain: the chain is followed until two mutual nearest neighbours meet
RECURSIVE nn_grow(_, _, _, _)
RECURSIVE nn_follow(_, _, _, _, _)
nn_follow(D, size, n, chain, r) ==
    IF Len(chain) > 1 /\ r.y = chain[Len(chain) - 1]
        THEN [chain |-> chain, x |-> chain[Len(chain)], y |-> r.y, d |-> r.d]
    ELSE nn_grow(D, size, n, Append(chain, r.y))

nn_grow(D, size, n, chain) ==
    nn_follow(D, size, n, chain, nn_nearest(D, size, n, chain, Len(chain)))

\* nn_chain: the distances after x is merged into y
nn_distances(D, size, n, x, y) ==
    [a \in 1..n |-> [b \in 1..n |->
        IF b = y /\ a \notin {x, y} /\ size[a] > 0
            THEN average_linkage(D[a][x], D[a][y], size[x], size[y])
        ELSE IF a = y /\ b \notin {x, y} /\ size[b] > 0
            THEN average_linkage(D[b][x], D[b][y], size[x], size[y])
        ELSE D[a][b]]]

\* nn_chain: merges k..n-1; Z collects (x, y, distance) of each merge
RECURSIVE nn_chain(_, _, _, _, _, _)
RECURSIVE nn_merge(_, _, _, _, _, _, _, _, _)
nn_merge(D, size, n, chain, Z, k, x, y, d) ==
    nn_chain(nn_distances(D, size, n, x, y),
             [size EXCEPT ![x] = 0, ![y] = size[x] + size[y]],
             n, SubSeq(chain, 1, Len(chain) - 2),
             Append(Z, [x |-> x, y |-> y, d |-> d]), k + 1)

nn_found(D, size, n, Z, k, g) ==
    IF g.x > g.y THEN nn_merge(D, size, n, g.chain, Z, k, g.y, g.x, g.d)
    ELSE nn_merge(D, size, n, g.chain, Z, k, g.x, g.y, g.d)

nn_chain(D, size, n, chain, Z, k) ==
    LET first_alive == CHOOSE a \in 1..n :
                            size[a] > 0 /\ \A b \in 1..(a - 1) : size[b] = 0
    IN  IF k >= n THEN Z
        ELSE nn_found(D, size, n, Z, k,
                      nn_grow(D, size, n,
                              IF Len(chain) = 0 THEN <<first_alive>> ELSE chain))

\* the place of z in the sorted merges before it: behind every merge that is
\* not farther
sorted_insert(front, z, pos) ==
    SubSeq(front, 1, pos) \o <<z>> \o SubSeq(front, pos + 1, Len(front))

\* np.argsort(Z[:, 2], kind='mergesort'): a stable sort by distance
RECURSIVE sort_by_distance(_)
sort_by_distance(Z) ==
    IF Len(Z) <= 1 THEN Z
    ELSE sorted_insert(sort_by_distance(SubSeq(Z, 1, Len(Z) - 1)), Z[Len(Z)],
                       Cardinality({k \in 1..(Len(Z) - 1) : RLe(Z[k].d, Z[Len(Z)].d)}))

\* get_max_dist_for_each_cluster: the largest distance at or below node c
max_dist(nodes, n, c) == IF c > n THEN nodes[c - n].md ELSE RInt(0)

RMax(a, b) == IF RLt(a, b) THEN b ELSE a

\* label: the sorted merges as tree nodes n+1.., the smaller label on the left;
\* lab maps each point to the label of its cluster so far
RECURSIVE label_nodes(_, _, _, _, _)
label_node(Z, n, k, lab, nodes, l, r) ==
    label_nodes(Z, n, k + 1,
                [p \in 1..n |-> IF lab[p] \in {l, r} THEN n + k ELSE lab[p]],
                Append(nodes,
                       [left |-> l, right |-> r, d |-> Z[k].d,
                        md |-> RMax(RMax(Z[k].d, max_dist(nodes, n, l)),
                                    max_dist(nodes, n, r))]))

label_nodes(Z, n, k, lab, nodes) ==
    IF k > Len(Z) THEN nodes
    ELSE IF lab[Z[k].x] < lab[Z[k].y]
        THEN label_node(Z, n, k, lab, nodes, lab[Z[k].x], lab[Z[k].y])
    ELSE label_node(Z, n, k, lab, nodes, lab[Z[k].y], lab[Z[k].x])

\* linkage(distances, 'average'): the dendrogram, with the largest distance
\* below each node
linkage_average(D, n) ==
    label_nodes(sort_by_distance(nn_chain(D, [a \in 1..n |-> 1], n, <<>>, <<>>, 1)),
                n, 1, [p \in 1..n |-> p], <<>>)

\* cluster_monocrit: a leaf below the node visited gets the number of its flat
\* cluster, a new one unless a leader is above it; st = [count, T]
monocrit_leaf(c, n, led, st) ==
    IF c > n THEN st
    ELSE IF led THEN [st EXCEPT !.T[c] = st.count]
    ELSE [count |-> st.count + 1, T |-> [st.T EXCEPT ![c] = st.count + 1]]

\* cluster_monocrit: the walk from node c: the left subtree, the right subtree,
\* the left leaf, the right leaf; led tells that c or a node above it is the
\* leader of a flat cluster
RECURSIVE monocrit(_, _, _, _, _, _)
monocrit_child(nodes, n, cutoff, c, led, st) ==
    IF c > n THEN monocrit(nodes, n, cutoff, c, led, st) ELSE st

monocrit_node(nodes, n, cutoff, node, led, st) ==
    monocrit_leaf(node.right, n, led,
        monocrit_leaf(node.left, n, led,
            monocrit_child(nodes, n, cutoff, node.right, led,
                monocrit_child(nodes, n, cutoff, node.left, led, st))))

monocrit(nodes, n, cutoff, c, led, st) ==
    IF ~led /\ RLe(nodes[c - n].md, cutoff)
        THEN monocrit_node(nodes, n, cutoff, nodes[c - n], TRUE,
                           [st EXCEPT !.count = st.count + 1])
    ELSE monocrit_node(nodes, n, cutoff, nodes[c - n], led, st)

\* fcluster(clustering, cutoff, criterion='distance'): the cluster id of each row
fcluster(nodes, n, cutoff) ==
    monocrit(nodes, n, cutoff, 2 * n - 1, FALSE,
             [count |-> 0, T |-> [p \in 1..n |-> 0]]).T

\* np.c_[classifications, clusters]
with_clusters(classifications, clusters) ==
    [k \in 1..Len(classifications) |-> Append(classifications[k], clusters[k])]

\* cluster without the branch for a single row, for comparison
cluster_single_untagged(classifications, cutoff) ==
    IF Len(classifications) < 2 THEN classifications
    ELSE with_clusters(classifications,
                       fcluster(linkage_average(pdist(classifications),
                                                Len(classifications)),
                                Len(classifications), cutoff))

\* cluster: the rows with the cluster id as a further column
cluster(classifications, cutoff) ==
    IF Len(classifications) < 2
        THEN IF Len(classifications) = 1
                THEN <<Append(classifications[1], 1)>>
             ELSE classifications
    ELSE with_clusters(classifications,
                       fcluster(linkage_average(pdist(classifications),
                                                Len(classifications)),
                                Len(classifications), cutoff))

(***************************************************************************)
(* The condenser: process_clusters, condense.                              *)
(***************************************************************************)
\* the characters of the names, in code point order
CodePoints ==
    <<" ", ".", "/", "0", "1", "2", "3", "4", "5", "6", "7", "8", "9", "D", "S",
      "_", "a", "b", "c", "d", "e", "g", "i", "m", "o", "p", "r", "s", "t">>

ord(c) == CHOOSE k \in 1..Len(CodePoints) : CodePoints[k] = c

\* "_".join(tokens)
RECURSIVE join(_)
join(tokens) ==
    IF Len(tokens) = 0 THEN <<>>
    ELSE IF Len(tokens) = 1 THEN tokens[1]
    ELSE tokens[1] \o <<"_">> \o join(Tail(tokens))

\* a < b for two strings
RECURSIVE str_lt(_, _)
str_lt(a, b) ==
    IF Len(b) = 0 THEN FALSE
    ELSE IF Len(a) = 0 THEN TRUE
    ELSE IF a[1] # b[1] THEN ord(a[1]) < ord(b[1])
    ELSE str_lt(Tail(a), Tail(b))

\* np.unique of a column: the distinct values in ascending order; lt holds the
\* pairs <<v, w>> with v < w
RECURSIVE unique(_, _, _)
unique(values, lt, out) ==
    IF values = {} THEN out
    ELSE LET v == CHOOSE v \in values : \A w \in values \ {v} : <<v, w>> \in lt
         IN  unique(values \ {v}, lt, Append(out, v))

\* the pairs of file names in ascending order
name_lt(names) == {p \in names \X names : str_lt(join(p[1]), join(p[2]))}

\* the pairs of cluster ids in ascending order, as numbers or as text
id_lt(ids, text) ==
    {p \in ids \X ids : IF text THEN str_lt(str(p[1]), str(p[2])) ELSE p[1] < p[2]}

\* the sum of column c
RECURSIVE column_sum(_, _)
column_sum(rows, c) ==
    IF Len(rows) = 0 THEN RInt(0) ELSE RAdd(rows[1][c], column_sum(Tail(rows), c))

\* np.mean(thisBoat, axis=0)[c]
column_mean(rows, c) == RDiv(column_sum(rows, c), RInt(Len(rows)))

\* np.max(thisBoat, axis=0)[c]
column_max(rows, c) ==
    LET k == CHOOSE k \in 1..Len(rows) : \A m \in 1..Len(rows) : RLe(rows[m][c], rows[k][c])
    IN  rows[k][c]

\* round(mean) of the column, for comparison: Python's round, halves to even
column_round_mean(rows, c) ==
    LET mean == column_mean(rows, c)
        whole == mean[1] \div mean[2]
        twice == 2 * (mean[1] - whole * mean[2])
    IN  IF twice < mean[2] THEN RInt(whole)
        ELSE IF twice > mean[2] THEN RInt(whole + 1)
        ELSE IF whole % 2 = 0 THEN RInt(whole) ELSE RInt(whole + 1)

\* scipy.stats.mode: the most common value, the smallest of them on a tie
column_mode(rows, c) ==
    LET count(v) == Cardinality({k \in 1..Len(rows) : rows[k][c] = v})
        k == CHOOSE k \in 1..Len(rows) :
                \A m \in 1..Len(rows) :
                    \/ count(rows[m][c]) < count(rows[k][c])
                    \/ /\ count(rows[m][c]) = count(rows[k][c])
                       /\ RLe(rows[k][c], rows[m][c])
    IN  rows[k][c]

\* the mean of every column, for comparison: the confidence is averaged too
thisBoatMean_mean_confidence(rows) ==
    <<column_mean(rows, 1), column_mean(rows, 2), column_mean(rows, 3),
      column_mode(rows, 4), column_mean(rows, 5), column_mean(rows, 6)>>

\* condense: one record for the rows of a cluster; with eight columns the
\* seventh holds file names and the record carries their sorted union
thisBoatMean(rows) ==
    <<column_mean(rows, 1), column_mean(rows, 2), column_max(rows, 3),
      column_mode(rows, 4), column_mean(rows, 5), column_mean(rows, 6)>>

\* condense with the file name of every row joined, for comparison
condense_every_file(rows) ==
    IF Len(rows[1]) = 8
        THEN Append(thisBoatMean(rows), [k \in 1..Len(rows) |-> rows[k][7]])
    ELSE thisBoatMean(rows)

condense(rows) ==
    IF Len(rows[1]) = 8
        THEN Append(thisBoatMean(rows),
                    unique({rows[k][7] : k \in 1..Len(rows)},
                           name_lt({rows[k][7] : k \in 1..Len(rows)}), <<>>))
    ELSE thisBoatMean(rows)

\* the rows of one cluster, in their order
RECURSIVE rows_of_cluster(_, _)
rows_of_cluster(rows, id) ==
    IF Len(rows) = 0 THEN <<>>
    ELSE IF rows[1][Len(rows[1])] = id
        THEN <<rows[1]>> \o rows_of_cluster(Tail(rows), id)
    ELSE rows_of_cluster(Tail(rows), id)

\* process_clusters: one condensed record per cluster id, in np.unique's order
\* (ids of a day-level array are text)
cluster_ids(rows) == {rows[k][Len(rows[k])] : k \in 1..Len(rows)}

condense_each(rows, order) ==
    [k \in 1..Len(order) |-> condense(rows_of_cluster(rows, order[k]))]

process_clusters(classifications_with_clusters) ==
    condense_each(classifications_with_clusters,
                  unique(cluster_ids(classifications_with_clusters),
                         id_lt(cluster_ids(classifications_with_clusters),
                               Len(classifications_with_clusters) > 0
                                   /\ Len(classifications_with_clusters[1]) = 8),
                         <<>>))

(***************************************************************************)
(* The coordinate mapper: get_crs, pixel2coord, coord2latlong,             *)
(* pixel2latlong.  A raster carries its geotransform gt = [c, a, b, f, d,  *)
(* e] and the EPSG code of its metadata (0: the metadata has none).        *)
(***************************************************************************)
\* get_crs falling back on EPSG:32756, for comparison
get_crs_default(raster) ==
    [error |-> "none", code |-> IF raster.crs = 0 THEN 32756 ELSE raster.crs]

\* get_crs: the code, or the exception raised
get_crs(raster) ==
    IF raster.crs = 0 THEN [error |-> "Exception", code |-> 0]
    ELSE [error |-> "none", code |-> raster.crs]

\* pixel2coord
pixel2coord(x, y, gt) ==
    <<RAdd(RAdd(RAdd(RAdd(RMul(gt.a, x), RMul(gt.b, y)), RMul(gt.a, <<1, 2>>)),
                RMul(gt.b, <<1, 2>>)), gt.c),
      RAdd(RAdd(RAdd(RAdd(RMul(gt.d, x), RMul(gt.e, y)), RMul(gt.d, <<1, 2>>)),
                RMul(gt.e, <<1, 2>>)), gt.f)>>

\* coord2pixel: the pixel of a coordinate, or the exception of a division by
\* a = 0 or e = 0; x and y are the global coordinates in both lines
coord2pixel(x, y, gt) ==
    IF gt.a[1] = 0 \/ gt.e[1] = 0 THEN Raised("ZeroDivisionError")
    ELSE Returned(
           <<RDiv(RSub(RSub(RSub(RSub(x, RMul(gt.b, y)), RMul(gt.a, <<1, 2>>)),
                            RMul(gt.b, <<1, 2>>)), gt.c), gt.a),
             RDiv(RSub(RSub(RSub(RSub(y, RMul(gt.d, x)), RMul(gt.d, <<1, 2>>)),
                            RMul(gt.e, <<1, 2>>)), gt.f), gt.e)>>)

\* coord2latlong: pyproj's transform from the code to EPSG:4326, as (long, lat).
\* The projection of a UTM zone is stood for by a scaling of the coordinates
\* and the six degrees between the central meridians of neighbouring zones.
coord2latlong(x, y, crs) ==
    <<RAdd(RDiv(x, RInt(10)), RInt(6 * ((crs % 100) - 56))), RDiv(y, RInt(10))>>

\* pixel2latlong, one row: c[0], c[1] = ics.coord2latlong(xp, yp, crs)
set_position(c, p, crs) ==
    [c EXCEPT ![1] = coord2latlong(p[1], p[2], crs)[1],
              ![2] = coord2latlong(p[1], p[2], crs)[2]]

\* pixel2latlong: x, y of every row moved from the padded image to (long, lat)
pixel2latlong_rows(classifications, gt, crs, leftPad, topPad) ==
    [k \in 1..Len(classifications) |->
        set_position(classifications[k],
                     pixel2coord(RSub(classifications[k][1], RInt(leftPad)),
                                 RSub(classifications[k][2], RInt(topPad)), gt),
                     crs)]

pixel2latlong(classifications, raster, tile_size, stride) ==
    pixel2latlong_rows(
        classifications, raster.gt, get_crs(raster).code,
        pixel2latlong_pads(raster.width, raster.height, tile_size, stride).leftPad,
        pixel2latlong_pads(raster.width, raster.height, tile_size, stride).topPad)

(***************************************************************************)
(* The orchestrator's functions: detect_from_tif, read_classifications,    *)
(* process_tif, process_day, write_to_csv.                                 *)
(***************************************************************************)
\* the values of config.yml
cfg ==
    [CONFIDENCE_THRESHOLD |-> Rat(1, 2),
     STAT_DISTANCE_CUTOFF_PIX |-> RInt(1),
     MOVING_DISTANCE_CUTOFF_PIX |-> RInt(2),
     STAT_DISTANCE_CUTOFF_LATLONG |-> Rat(1, 10),
     MOVING_DISTANCE_CUTOFF_LATLONG |-> Rat(2, 10)]

\* get_date_from_filename returning the year alone, for comparison
get_date_from_filename_year(filename) ==
    LET str_date == filename[1]
    IN  IF Len(str_date) # 8 THEN None ELSE SubSeq(str_date, 1, 4)

\* get_date_from_filename: "dd/mm/yyyy", or None
get_date_from_filename(filename) ==
    LET str_date == filename[1]
    IN  IF Len(str_date) # 8 THEN None
        ELSE SubSeq(str_date, 7, 8) \o <<"/">> \o SubSeq(str_date, 5, 6)
                \o <<"/">> \o SubSeq(str_date, 1, 4)

\* segment_image_for_classification as a whole: the exception raised, or the
\* names of the tiles saved
segment_image_for_classification(image, tile_size, stride) ==
    LET rows  == segment_rows(image.height, tile_size, stride)
        cols  == segment_cols(image.width, tile_size, stride)
        boxes == {tile_rect(i, j, tile_size, stride) :
                    i \in 0..(rows - 1), j \in 0..(cols - 1)}
        saved == {r \in boxes : ~is_empty_tile(border_counts(image, r, tile_size))}
    IN  IF segment_precondition(image.width, image.height, tile_size, stride) # "none"
            THEN [error |-> "Exception", tiles |-> {}]
        ELSE IF boxes # {} /\ border_samples(tile_size) = {}
            THEN [error |-> "ZeroDivisionError", tiles |-> {}]
        ELSE [error |-> "none",
              tiles |-> {tile_name(image.base, r.i, r.j) : r \in saved}]

\* "DS" in file
has_DS(name) ==
    LET f == join(name)
    IN  \E k \in 1..(Len(f) - 1) : f[k] = "D" /\ f[k + 1] = "S"

\* the label folder after detect.py has run on the tiles: the label files of
\* the tiles saved, and whatever else lies in the folder
label_folder(raster, saved) ==
    LET of_run(f) == f.name \in saved \/ has_DS(f.name)
    IN  SelectSeq(raster.labels, of_run)

\* remove_low_confidence
\* remove_low_confidence with <= for <, for comparison
remove_low_confidence_inclusive(classifications, confidence_threshold) ==
    LET low(c)  == RLe(c[3], confidence_threshold)
        high(c) == ~RLe(c[3], confidence_threshold)
    IN  [classifications |-> SelectSeq(classifications, high),
         low_confidence |-> SelectSeq(classifications, low)]

remove_low_confidence(classifications, confidence_threshold) ==
    LET low(c)  == RLt(c[3], confidence_threshold)
        high(c) == ~RLt(c[3], confidence_threshold)
    IN  [classifications |-> SelectSeq(classifications, high),
         low_confidence |-> SelectSeq(classifications, low)]

\* np.concatenate of the rows parsed from the files
RECURSIVE concatenate(_, _, _)
concatenate(texts, tile_size, stride) ==
    IF Len(texts) = 0 THEN <<>>
    ELSE parse_classifications(texts[1], tile_size, stride).rows
            \o concatenate(Tail(texts), tile_size, stride)

\* what read_classifications returns, or the exception raised on the way
NoDetections(error) ==
    [error |-> error, all_cs |-> <<>>, classifications |-> <<>>,
     low_confidence |-> <<>>]

\* the first of the files that does not parse, or 0
first_raised(texts, tile_size, stride) ==
    IF \A k \in 1..Len(texts) :
            parse_classifications(texts[k], tile_size, stride).state = "ok"
        THEN 0
    ELSE CHOOSE k \in 1..Len(texts) :
            /\ parse_classifications(texts[k], tile_size, stride).state = "raised"
            /\ \A m \in 1..(k - 1) :
                    parse_classifications(texts[m], tile_size, stride).state = "ok"

read_rows(all_cs, split) ==
    [error |-> "none", all_cs |-> all_cs,
     classifications |-> split.classifications,
     low_confidence |-> split.low_confidence]

read_texts(texts, tile_size, stride, confidence_threshold, raised) ==
    IF raised # 0
        THEN NoDetections(parse_classifications(texts[raised], tile_size, stride).error)
    ELSE read_rows(concatenate(texts, tile_size, stride),
                   remove_low_confidence(concatenate(texts, tile_size, stride),
                                         confidence_threshold))

\* read_classifications: the rows kept and the rows of low confidence, or the
\* exception of the first file that does not parse
read_classifications(folder, tile_size, stride, confidence_threshold) ==
    LET no_DS(f) == ~has_DS(f.name)
    IN  read_texts(SelectSeq(folder, no_DS), tile_size, stride, confidence_threshold,
                   first_raised(SelectSeq(folder, no_DS), tile_size, stride))

detect_tiles(raster, tile_size, stride, confidence_threshold, seg) ==
    IF seg.error # "none" THEN NoDetections(seg.error)
    ELSE read_classifications(label_folder(raster, seg.tiles), tile_size, stride,
                              confidence_threshold)

\* remove(path): the files, the folders inside and the folder itself are gone
remove(dir) == NoDir

\* os.mkdir(path) without the remove before it, for comparison
prepare_temp_dirs_keep(dir) ==
    IF dir.exists THEN dir ELSE [exists |-> TRUE, files |-> {}]

\* prepare_temp_dirs, for one of the two directories: remove, then os.mkdir
prepare_temp_dirs(dir) == [exists |-> TRUE, files |-> remove(dir).files]

\* Boat_Temp_PNG after detect_from_tif: create_padded_png saves the png of the
\* raster into the directory prepare_temp_dirs made
png_dir(raster, dir) ==
    [exists |-> TRUE, files |-> prepare_temp_dirs(dir).files \cup {raster.base}]

\* Boat_Temp after detect_from_tif: segment_image_for_classification saves the
\* tiles of the raster into the directory prepare_temp_dirs made
tile_dir(raster, tile_size, stride, dir) ==
    [exists |-> TRUE,
     files |-> prepare_temp_dirs(dir).files
                 \cup segment_image_for_classification(
                          create_padded_png(raster, tile_size, stride),
                          tile_size, stride).tiles]

\* detect_from_tif: the raster padded, tiled, detected and read
detect_from_tif(raster, tile_size, stride, confidence_threshold) ==
    detect_tiles(raster, tile_size, stride, confidence_threshold,
                 segment_image_for_classification(
                     create_padded_png(raster, tile_size, stride), tile_size, stride))

\* classifications[classifications[:, 3].astype(float) == k]
of_class_every(classifications, k) == classifications

of_class(classifications, k) ==
    LET is_k(c) == c[4] = RInt(k)
    IN  SelectSeq(classifications, is_k)

\* np.c_[boats, [file] * len(boats)]
with_file(boats, file) == [k \in 1..Len(boats) |-> Append(boats[k], file)]

\* process_tif up to the early return: nothing is clustered, nothing is moved
tif_detected(raster, det) ==
    [file |-> raster.base, error |-> det.error, moved |-> FALSE,
     all_cs |-> det.all_cs, classifications |-> det.classifications,
     low_confidence |-> det.low_confidence,
     static_clusters |-> <<>>, moving_clusters |-> <<>>,
     static_boats |-> <<>>, moving_boats |-> <<>>]

\* process_tif from pixel2latlong on: get_crs raises, or the boats are located,
\* named after the raster, and the raster is moved
tif_located(raster, tile_size, stride, r, static_boats, moving_boats) ==
    IF get_crs(raster).error # "none" THEN [r EXCEPT !.error = get_crs(raster).error]
    ELSE [r EXCEPT
            !.moved = TRUE,
            !.static_boats =
                with_file(pixel2latlong(static_boats, raster, tile_size, stride),
                          raster.base),
            !.moving_boats =
                with_file(pixel2latlong(moving_boats, raster, tile_size, stride),
                          raster.base)]

\* process_tif from the clusters on
tif_clustered(raster, tile_size, stride, det, static_clusters, moving_clusters) ==
    tif_located(raster, tile_size, stride,
                [tif_detected(raster, det) EXCEPT
                    !.static_clusters = static_clusters,
                    !.moving_clusters = moving_clusters],
                process_clusters(static_clusters),
                process_clusters(moving_clusters))

\* process_tif after detect_from_tif
tif_split(raster, tile_size, stride, stat_cutoff, moving_cutoff, det) ==
    IF det.error # "none" \/ Len(det.classifications) = 0
        THEN tif_detected(raster, det)
    ELSE tif_clustered(raster, tile_size, stride, det,
                       cluster(of_class(det.classifications, 0), stat_cutoff),
                       cluster(of_class(det.classifications, 1), moving_cutoff))

\* process_tif: what it returns (static_boats, moving_boats), whether the
\* raster is moved to the processed folder, and the values on the way
process_tif(raster, tile_size, stride, stat_cutoff, moving_cutoff) ==
    tif_split(raster, tile_size, stride, stat_cutoff, moving_cutoff,
              detect_from_tif(raster, tile_size, stride, cfg.CONFIDENCE_THRESHOLD))

\* process_day from the day-level clusters on
day_clustered(all_static_boats, all_moving_boats, static_clusters, moving_clusters) ==
    [all_static_boats |-> all_static_boats,
     all_moving_boats |-> all_moving_boats,
     static_clusters |-> static_clusters,
     moving_clusters |-> moving_clusters,
     static_boats |-> process_clusters(static_clusters),
     moving_boats |-> process_clusters(moving_clusters),
     done |-> TRUE]

\* process_day from all_static_boats, all_moving_boats on
day_level(all_static_boats, all_moving_boats) ==
    day_clustered(all_static_boats, all_moving_boats,
                  cluster(all_static_boats, cfg.STAT_DISTANCE_CUTOFF_LATLONG),
                  cluster(all_moving_boats, cfg.MOVING_DISTANCE_CUTOFF_LATLONG))

\* process_day after the rasters of the day: the day-level pass over what
\* process_tif returned, results[k] for the k-th file
process_day(results) ==
    day_level(results[1].static_boats, results[1].moving_boats)

\* the first line of boat_detections.csv
Header ==
    [kind |-> "header",
     columns |-> <<"date", "class", "images", "latitude", "longitude",
                   "confidence", "w", "h">>]

\* int(float(v))
int_of_float(v) == IF v[1] >= 0 THEN v[1] \div v[2] ELSE -((-v[1]) \div v[2])

\* write_to_csv with the header written by every call, for comparison
write_to_csv_header_always(file, classifications, date) ==
    LET line(boat) ==
            [kind |-> "row", date |-> date, class |-> int_of_float(boat[4]),
             images |-> boat[7], latitude |-> boat[2], longitude |-> boat[1],
             confidence |-> boat[3], w |-> boat[5], h |-> boat[6]]
    IN  (IF file = NoCsv THEN <<Header>> ELSE Append(file, Header))
            \o [k \in 1..Len(classifications) |-> line(classifications[k])]

\* write_to_csv: the file after the call
write_to_csv(file, classifications, date) ==
    LET line(boat) ==
            [kind |-> "row", date |-> date, class |-> int_of_float(boat[4]),
             images |-> boat[7], latitude |-> boat[2], longitude |-> boat[1],
             confidence |-> boat[3], w |-> boat[5], h |-> boat[6]]
    IN  (IF file = NoCsv THEN <<Header>> ELSE file)
            \o [k \in 1..Len(classifications) |-> line(classifications[k])]

(***************************************************************************)
(* Actions of the tiler specification.                                     *)
(***************************************************************************)
TileConfigs == {c \in (1..MaxTile) \X (1..MaxTile) : c[1] >= c[2]}

\* "20230101" and "img"
Date1 == <<"2", "0", "2", "3", "0", "1", "0", "1">>
Img == <<"i", "m", "g">>

Rasters == [width : 1..MaxDim, height : 1..MaxDim, dark : BOOLEAN,
            base : {<<Date1, <<"a">>>>}]

\* what the tiler's actions leave alone
TilerFrame == UNCHANGED <<padVars, parseVars, dayVars, mapVars, clusterVars, orderVars>>

InitTiler ==
    /\ OrdersIdle
    /\ DayIdle
    /\ MapIdle
    /\ ClusterIdle
    /\ label_file = NoFile
    /\ parsed = NotParsed
    /\ padding = NoPadding
    /\ sub_pad = NoPadding
    /\ \E c \in TileConfigs : TILE_SIZE = c[1] /\ STRIDE = c[2]
    /\ tif \in Rasters
    /\ img = NoImage
    /\ pc \in {"start", "open"}
    /\ seg_i = 0
    /\ seg_j = 0
    /\ rects = <<>>
    /\ tiles = <<>>
    /\ err = "none"

\* detect_from_tif: ics.create_padded_png(...), then the png is opened
CreatePaddedPng ==
    /\ pc = "start"
    /\ img' = create_padded_png(tif, TILE_SIZE, STRIDE)
    /\ pc' = "check"
    /\ UNCHANGED <<TILE_SIZE, STRIDE, tif, seg_i, seg_j, rects, tiles, err>>
    /\ TilerFrame

\* segment_image_for_classification called on an image as it is
OpenImage ==
    /\ pc = "open"
    /\ img' = [NoImage EXCEPT !.width = tif.width, !.height = tif.height,
                              !.dark = tif.dark, !.base = tif.base]
    /\ pc' = "check"
    /\ UNCHANGED <<TILE_SIZE, STRIDE, tif, seg_i, seg_j, rects, tiles, err>>
    /\ TilerFrame

\* the two precondition checks raise
SegmentRaise ==
    /\ pc = "check"
    /\ segment_precondition(img.width, img.height, TILE_SIZE, STRIDE) # "none"
    /\ err' = segment_precondition(img.width, img.height, TILE_SIZE, STRIDE)
    /\ pc' = "error"
    /\ UNCHANGED <<TILE_SIZE, STRIDE, tif, img, seg_i, seg_j, rects, tiles>>
    /\ TilerFrame

\* the checks pass and the loops are entered (or are empty)
SegmentEnter ==
    /\ pc = "check"
    /\ segment_precondition(img.width, img.height, TILE_SIZE, STRIDE) = "none"
    /\ pc' = IF /\ segment_rows(img.height, TILE_SIZE, STRIDE) > 0
                /\ segment_cols(img.width, TILE_SIZE, STRIDE) > 0
             THEN "loop" ELSE "done"
    /\ UNCHANGED <<TILE_SIZE, STRIDE, tif, img, seg_i, seg_j, rects, tiles, err>>
    /\ TilerFrame

Advance ==
    LET nx == next_index(seg_i, seg_j,
                         segment_rows(img.height, TILE_SIZE, STRIDE),
                         segment_cols(img.width, TILE_SIZE, STRIDE))
    IN  /\ seg_i' = nx[1]
        /\ seg_j' = nx[2]
        /\ pc' = IF nx[3] THEN "done" ELSE "loop"

\* one loop body: the border is sampled and the tile is written
SegmentEmit ==
    LET r == tile_rect(seg_i, seg_j, TILE_SIZE, STRIDE)
        c == border_counts(img, r, TILE_SIZE)
    IN  /\ pc = "loop"
        /\ c.total # 0
        /\ ~is_empty_tile(c)
        /\ rects' = Append(rects, r)
        /\ tiles' = Append(tiles, [name |-> tile_name(img.base, seg_i, seg_j),
                                   left |-> r.left, top |-> r.top,
                                   right |-> r.right, bottom |-> r.bottom])
        /\ Advance
        /\ UNCHANGED <<TILE_SIZE, STRIDE, tif, img, err>>
        /\ TilerFrame

\* one loop body: more than 93% of the sampled border is black, `continue`
SegmentSkip ==
    LET r == tile_rect(seg_i, seg_j, TILE_SIZE, STRIDE)
        c == border_counts(img, r, TILE_SIZE)
    IN  /\ pc = "loop"
        /\ c.total # 0
        /\ is_empty_tile(c)
        /\ rects' = Append(rects, r)
        /\ Advance
        /\ UNCHANGED <<TILE_SIZE, STRIDE, tif, img, tiles, err>>
        /\ TilerFrame

\* one loop body: range(0, tile_size - 1, 8) is empty, percentageEmpty / total
\* divides by zero
SegmentDivZero ==
    LET r == tile_rect(seg_i, seg_j, TILE_SIZE, STRIDE)
        c == border_counts(img, r, TILE_SIZE)
    IN  /\ pc = "loop"
        /\ c.total = 0
        /\ rects' = Append(rects, r)
        /\ err' = "ZeroDivisionError"
        /\ pc' = "error"
        /\ UNCHANGED <<TILE_SIZE, STRIDE, tif, img, seg_i, seg_j, tiles>>
        /\ TilerFrame

NextTiler ==
    \/ CreatePaddedPng
    \/ OpenImage
    \/ SegmentRaise
    \/ SegmentEnter
    \/ SegmentEmit
    \/ SegmentSkip
    \/ SegmentDivZero

SpecTiler == InitTiler /\ [][NextTiler]_vars

(***************************************************************************)
(* The padding functions on their own: every raster size and every         *)
(* (tile_size, stride) is padded by create_padded_png and measured by      *)
(* get_required_padding, as detect_from_tif and pixel2latlong do.          *)
(***************************************************************************)
InitPad ==
    /\ InitTiler
    /\ pc = "start"

\* pixel2latlong: ics.get_required_padding(tif, TILE_SIZE, STRIDE)
GetRequiredPadding ==
    /\ padding = NoPadding
    /\ padding' = get_required_padding(tif.width, tif.height, TILE_SIZE, STRIDE)
    /\ sub_pad' = pixel2latlong_pads(tif.width, tif.height, TILE_SIZE, STRIDE)
    /\ UNCHANGED <<tilerVars, parseVars, dayVars, mapVars, clusterVars, orderVars>>

NextPad ==
    \/ CreatePaddedPng
    \/ GetRequiredPadding

SpecPad == InitPad /\ [][NextPad]_vars

(***************************************************************************)
(* The detection parser on its own: one label file of a tile is parsed.    *)
(***************************************************************************)
MaxIndex == 2
MaxLines == 2

\* decimal literals the detector writes
Dec(m, x) == [mant |-> m, exp |-> x]

\* lines of a label file: class cx cy w h [conf]
LabelLines ==
    { <<Dec(0, 0), Dec(5, 1), Dec(5, 1), Dec(2, 1), Dec(2, 1), Dec(8, 1)>>,
      <<Dec(1, 0), Dec(25, 2), Dec(75, 2), Dec(1, 1), Dec(3, 1), Dec(45, 2)>>,
      <<Dec(0, 0), Dec(0, 0), Dec(1, 0), Dec(5, 1), Dec(25, 2), Dec(1, 0)>> }

\* lines of a manual label file: no confidence
ManualLines ==
    { <<Dec(1, 0), Dec(125, 3), Dec(5, 1), Dec(1, 1), Dec(1, 1)>> }

\* lines of four and of seven fields
OtherLines ==
    { <<Dec(0, 0), Dec(5, 1), Dec(5, 1), Dec(2, 1)>>,
      <<Dec(1, 0), Dec(25, 2), Dec(25, 2), Dec(1, 1), Dec(1, 1), Dec(9, 1), Dec(7, 0)>> }

LineSeqs(S, n) == UNION {[1..k -> S] : k \in 0..n}

ImageBases == {<<Img>>, <<Date1, <<"a">>>>}

ParserConfigs == {<<416, 104>>, <<4, 2>>}

InitParse ==
    /\ OrdersIdle
    /\ DayIdle
    /\ MapIdle
    /\ ClusterIdle
    /\ \E c \in ParserConfigs : TILE_SIZE = c[1] /\ STRIDE = c[2]
    /\ \E b \in ImageBases, r \in 0..MaxIndex, c \in 0..MaxIndex,
          ls \in LineSeqs(LabelLines \cup ManualLines \cup OtherLines, MaxLines),
          there \in BOOLEAN :
          label_file = [name |-> b \o <<str(r), str(c)>>,
                        lines |-> IF there THEN ls ELSE <<>>, exists |-> there]
    /\ parsed = NotParsed
    /\ tif = [width |-> 1, height |-> 1, dark |-> FALSE, base |-> <<>>]
    /\ img = NoImage
    /\ pc = "parse"
    /\ seg_i = 0
    /\ seg_j = 0
    /\ rects = <<>>
    /\ tiles = <<>>
    /\ err = "none"
    /\ padding = NoPadding
    /\ sub_pad = NoPadding

\* parse_classifications(file)
ParseClassifications ==
    /\ pc = "parse"
    /\ parsed = NotParsed
    /\ parsed' = parse_classifications(label_file, TILE_SIZE, STRIDE)
    /\ pc' = "parsed"
    /\ UNCHANGED <<TILE_SIZE, STRIDE, tif, img, seg_i, seg_j, rects, tiles, err>>
    /\ UNCHANGED <<padVars, label_file, dayVars, mapVars, clusterVars,
                   orderVars>>

NextParse ==
    \/ ParseClassifications

SpecParse == InitParse /\ [][NextParse]_vars

(***************************************************************************)
(* The orchestrator: main, classify_directory, process_day, process_tif    *)
(* over a directory of rasters.                                            *)
(***************************************************************************)
\* "20230102" and "processed"
Date2 == <<"2", "0", "2", "3", "0", "1", "0", "2">>
Processed == <<"p", "r", "o", "c", "e", "s", "s", "e", "d">>

\* the names of the rasters: two of the first day, one of the second
RasterNames == <<<<Date1, <<"a">>>>, <<Date1, <<"b">>>>, <<Date2, <<"a">>>>>>

\* which rasters lie in the directory, in the order of os.listdir
RasterOrders ==
    {<<>>, <<1>>, <<2>>, <<3>>, <<1, 2>>, <<2, 1>>, <<1, 3>>, <<2, 3>>,
     <<1, 2, 3>>, <<2, 1, 3>>}

\* TILE_SIZE and STRIDE of config.yml: one fit for tiling, one not
DayConfigs == {<<4, 2>>, <<3, 2>>}

\* a north-up geotransform with its origin at (c, f)
NorthUp(c, f) ==
    [c |-> RInt(c), a |-> RInt(1), b |-> RInt(0),
     f |-> RInt(f), d |-> RInt(0), e |-> RInt(-1)]

\* one line of a label file of detect.py: class cx cy w h conf
Line(class, cx, cy, conf) == <<Dec(class, 0), cx, cy, Dec(2, 1), Dec(2, 1), conf>>

\* ".DS_Store"
DS_Store == <<<<".", "D", "S">>, <<"S", "t", "o", "r", "e">>>>

\* what detect.py finds in the tiles of a raster: nothing; one static boat
\* seen in two overlapping tiles; a static boat, a moving boat whose
\* confidence is the threshold and a static boat of low confidence, beside a
\* .DS_Store file; a static boat and a detection of a third class
LabelSets(base) ==
    { <<>>,
      << [name |-> tile_name(base, 0, 1),
          lines |-> <<Line(0, Dec(25, 2), Dec(75, 2), Dec(8, 1))>>,
          exists |-> TRUE],
         [name |-> tile_name(base, 1, 1),
          lines |-> <<Line(0, Dec(25, 2), Dec(25, 2), Dec(9, 1))>>,
          exists |-> TRUE] >>,
      << [name |-> DS_Store, lines |-> <<>>, exists |-> TRUE],
         [name |-> tile_name(base, 0, 1),
          lines |-> <<Line(0, Dec(25, 2), Dec(75, 2), Dec(8, 1))>>,
          exists |-> TRUE],
         [name |-> tile_name(base, 1, 1),
          lines |-> <<Line(1, Dec(75, 2), Dec(75, 2), Dec(5, 1)),
                      Line(0, Dec(5, 1), Dec(25, 2), Dec(3, 1))>>,
          exists |-> TRUE] >>,
      << [name |-> tile_name(base, 1, 1),
          lines |-> <<Line(0, Dec(25, 2), Dec(25, 2), Dec(7, 1)),
                      Line(2, Dec(5, 1), Dec(5, 1), Dec(9, 1))>>,
          exists |-> TRUE] >> }

\* the EPSG code in the metadata of a raster that has one: UTM zone 56S, and
\* 55S for the second raster of the first day
EpsgOf(base) == IF base = RasterNames[2] THEN 32755 ELSE 32756

\* the rasters a name can stand for: with or without a CRS in the metadata
RasterFiles(base) ==
    [base : {base}, width : {4}, height : {4}, dark : {FALSE},
     crs : {0, EpsgOf(base)}, gt : {NorthUp(0, 0)}, labels : LabelSets(base)]

\* the folder process_tif moves the rasters to, as an entry of tif_dir
ProcessedFolder ==
    [base |-> <<Processed>>, width |-> 0, height |-> 0, dark |-> FALSE,
     crs |-> 0, gt |-> NorthUp(0, 0), labels |-> <<>>]

\* what the orchestrator's actions leave alone
DayFrame ==
    UNCHANGED <<TILE_SIZE, STRIDE, tif, img, pc, seg_i, seg_j, rects, tiles, err,
                padVars, parseVars, mapVars, clusterVars, orderVars>>

\* a directory of rasters, before or after an earlier run, with or without
\* the temporary directories an earlier run that raised has left behind
InitDay ==
    /\ OrdersIdle
    /\ MapIdle
    /\ ClusterIdle
    /\ \E c \in DayConfigs : TILE_SIZE = c[1] /\ STRIDE = c[2]
    /\ \E o \in RasterOrders, earlier \in BOOLEAN :
          /\ \E rs \in [1..Len(o) -> UNION {RasterFiles(RasterNames[n]) : n \in 1..3}] :
                /\ \A k \in 1..Len(o) : rs[k].base = RasterNames[o[k]]
                /\ allFiles = (IF earlier THEN <<ProcessedFolder>> ELSE <<>>) \o rs
          /\ csv = IF earlier THEN <<Header>> ELSE NoCsv
    /\ days = {}
    /\ day = None
    /\ files = <<>>
    /\ returns = <<>>
    /\ last_tif = NoTif
    /\ day_pass = NoDayPass
    /\ processed = {}
    /\ classified = {}
    /\ written = {}
    /\ phase = "main"
    /\ failure = NoFailure
    /\ \E leftover \in BOOLEAN :
          /\ TEMP = IF leftover
                       THEN [exists |-> TRUE,
                             files |-> {tile_name(RasterNames[3], 0, 1)}]
                    ELSE NoDir
          /\ TEMP_PNG = IF leftover
                           THEN [exists |-> TRUE, files |-> {RasterNames[3]}]
                        ELSE NoDir
    /\ tif = [width |-> 1, height |-> 1, dark |-> FALSE, base |-> <<>>]
    /\ img = NoImage
    /\ pc = "idle"
    /\ seg_i = 0
    /\ seg_j = 0
    /\ rects = <<>>
    /\ tiles = <<>>
    /\ err = "none"
    /\ padding = NoPadding
    /\ sub_pad = NoPadding
    /\ label_file = NoFile
    /\ parsed = NotParsed

\* classify_directory: the days of the entries of the directory
ClassifyDirectory ==
    /\ phase = "main"
    /\ days' = {get_date_from_filename(allFiles[k].base) : k \in 1..Len(allFiles)}
                    \ {None}
    /\ phase' = "days"
    /\ UNCHANGED <<allFiles, day, files, returns, last_tif, day_pass, csv,
                   processed, classified, written, failure,
                   TEMP, TEMP_PNG>>
    /\ DayFrame

\* daily_data, daily_results: the next day of the set and its files
NextDay ==
    /\ phase = "days"
    /\ \E d \in days :
          LET of_day(f) == get_date_from_filename(f.base) = d
          IN  /\ day' = d
              /\ files' = SelectSeq(allFiles, of_day)
              /\ days' = days \ {d}
    /\ returns' = <<>>
    /\ day_pass' = NoDayPass
    /\ phase' = "process_day"
    /\ UNCHANGED <<allFiles, last_tif, csv, processed, classified, written, failure,
                   TEMP, TEMP_PNG>>
    /\ DayFrame

\* process_day: process_tif returns for the next file of the day
ProcessTif ==
    LET file == files[Len(returns) + 1]
    IN  /\ phase = "process_day"
        /\ Len(returns) < Len(files)
        /\ last_tif' = process_tif(file, TILE_SIZE, STRIDE,
                                   cfg.STAT_DISTANCE_CUTOFF_PIX,
                                   cfg.MOVING_DISTANCE_CUTOFF_PIX)
        /\ last_tif'.error = "none"
        /\ returns' = Append(returns, last_tif')
        /\ classified' = classified \cup {file.base}
        /\ processed' = IF last_tif'.moved THEN processed \cup {file.base}
                        ELSE processed
        /\ TEMP' = tile_dir(file, TILE_SIZE, STRIDE, TEMP)
        /\ TEMP_PNG' = png_dir(file, TEMP_PNG)
        /\ UNCHANGED <<allFiles, days, day, files, day_pass, csv, written, phase,
                       failure>>
        /\ DayFrame

\* process_day: process_tif raises for the next file of the day; nothing
\* between it and main catches the exception
ProcessTifRaises ==
    LET file == files[Len(returns) + 1]
    IN  /\ phase = "process_day"
        /\ Len(returns) < Len(files)
        /\ last_tif' = process_tif(file, TILE_SIZE, STRIDE,
                                   cfg.STAT_DISTANCE_CUTOFF_PIX,
                                   cfg.MOVING_DISTANCE_CUTOFF_PIX)
        /\ last_tif'.error # "none"
        /\ failure' = [file |-> file.base, error |-> last_tif'.error]
        /\ phase' = "aborted"
        /\ TEMP' = tile_dir(file, TILE_SIZE, STRIDE, TEMP)
        /\ TEMP_PNG' = png_dir(file, TEMP_PNG)
        /\ UNCHANGED <<allFiles, days, day, files, returns, day_pass, csv,
                       processed, classified, written>>
        /\ DayFrame

\* process_day: the day-level pass once every file of the day has returned
ProcessDay ==
    /\ phase = "process_day"
    /\ Len(returns) = Len(files)
    /\ day_pass' = process_day(returns)
    /\ phase' = "write_static"
    /\ UNCHANGED <<allFiles, days, day, files, returns, last_tif, csv, processed,
                   classified, written, failure,
                   TEMP, TEMP_PNG>>
    /\ DayFrame

\* classify_directory: write_to_csv(static_boats, day, "boat_detections")
WriteStatic ==
    /\ phase = "write_static"
    /\ csv' = write_to_csv(csv, day_pass.static_boats, day)
    /\ phase' = "write_moving"
    /\ UNCHANGED <<allFiles, days, day, files, returns, last_tif, day_pass,
                   processed, classified, written, failure,
                   TEMP, TEMP_PNG>>
    /\ DayFrame

\* classify_directory: write_to_csv(moving_boats, day, "boat_detections")
WriteMoving ==
    /\ phase = "write_moving"
    /\ csv' = write_to_csv(csv, day_pass.moving_boats, day)
    /\ written' = written \cup {day}
    /\ phase' = "days"
    /\ UNCHANGED <<allFiles, days, day, files, returns, last_tif, day_pass,
                   processed, classified, failure,
                   TEMP, TEMP_PNG>>
    /\ DayFrame

\* main: every day is written, the temporary folders are removed
Finish ==
    /\ phase = "days"
    /\ days = {}
    /\ phase' = "done"
    /\ TEMP' = remove(TEMP)
    /\ TEMP_PNG' = remove(TEMP_PNG)
    /\ UNCHANGED <<allFiles, days, day, files, returns, last_tif, day_pass, csv,
                   processed, classified, written, failure>>
    /\ DayFrame

NextDayRun ==
    \/ ClassifyDirectory
    \/ NextDay
    \/ ProcessTif
    \/ ProcessTifRaises
    \/ ProcessDay
    \/ WriteStatic
    \/ WriteMoving
    \/ Finish

SpecDay == InitDay /\ [][NextDayRun]_vars

(***************************************************************************)
(* Properties of the orchestrator (checked under SpecDay).                 *)
(***************************************************************************)
\* the rows without their last column, the cluster id
without_cluster(rows) ==
    [k \in 1..Len(rows) |-> SubSeq(rows[k], 1, Len(rows[k]) - 1)]

\* how often row d occurs among the rows
Occurrences(rows, d) == Cardinality({k \in 1..Len(rows) : rows[k] = d})

\* detection d, returned by process_tif, is in one cluster of the day-level
\* pass, and a record of the day's output carries its raster
InDayPass(d, clusters, boats) ==
    /\ Occurrences(without_cluster(clusters), d) = 1
    /\ \E k \in 1..Len(boats) :
            \E m \in 1..Len(boats[k][7]) : boats[k][7][m] = d[7]

\* C1: once process_day has made its day-level pass, every detection that
\* process_tif returned for any raster of the day is a member of exactly one
\* cluster of that pass and is represented in the day's output.
C1_DayPassTakesEveryRaster ==
    day_pass.done =>
        \A k \in 1..Len(returns) :
            /\ \A m \in 1..Len(returns[k].static_boats) :
                    InDayPass(returns[k].static_boats[m],
                              day_pass.static_clusters, day_pass.static_boats)
            /\ \A m \in 1..Len(returns[k].moving_boats) :
                    InDayPass(returns[k].moving_boats[m],
                              day_pass.moving_clusters, day_pass.moving_boats)

\* the condensed records process_tif returns are as many as its clusters
EveryClusterCondensed(t) ==
    /\ Len(t.static_boats) = Cardinality(cluster_ids(t.static_clusters))
    /\ Len(t.moving_boats) = Cardinality(cluster_ids(t.moving_clusters))

\* C2: when process_tif has returned for a raster, every parsed detection at
\* or above the confidence threshold, whatever its class, is a member of
\* exactly one cluster, every cluster has its condensed record in the static
\* or the moving set returned, and the parsed detections that are not
\* clustered are the ones below the threshold.
C2_NoDetectionSilentlyDropped ==
    (phase = "process_day" /\ Len(returns) > 0) =>
        LET t == returns[Len(returns)]
            clustered == without_cluster(t.static_clusters)
                            \o without_cluster(t.moving_clusters)
        IN  /\ \A k \in 1..Len(t.all_cs) :
                    LET d == t.all_cs[k]
                    IN  IF RLt(d[3], cfg.CONFIDENCE_THRESHOLD)
                            THEN Occurrences(clustered, d) = 0
                        ELSE Occurrences(clustered, d) = Occurrences(t.all_cs, d)
            /\ EveryClusterCondensed(t)

\* process_tif fails for the raster
Fails(raster) ==
    process_tif(raster, TILE_SIZE, STRIDE, cfg.STAT_DISTANCE_CUTOFF_PIX,
                cfg.MOVING_DISTANCE_CUTOFF_PIX).error # "none"

\* C3: when the run has ended, every raster of the directory for which
\* process_tif does not fail has been processed and the detections of its day
\* have been written, whatever raster beside it failed.
C3_FailureDoesNotAbortSiblings ==
    phase \in {"done", "aborted"} =>
        \A k \in 1..Len(allFiles) :
            (/\ get_date_from_filename(allFiles[k].base) # None
             /\ ~Fails(allFiles[k]))
                => /\ allFiles[k].base \in classified
                   /\ get_date_from_filename(allFiles[k].base) \in written

(***************************************************************************)
(* Properties of the parser (checked under SpecParse).                     *)
(***************************************************************************)
\* <row> and <col> of <image>_<row>_<col>.txt
FileRow == int(label_file.name[Len(label_file.name) - 1])
FileCol == int(label_file.name[Len(label_file.name)])

\* the value a field of line k stands for
FieldValue(k, f) ==
    Rat(label_file.lines[k][f].mant, Pow10(label_file.lines[k][f].exp))

\* C9: a line of <image>_<row>_<col>.txt with centre (cx, cy) becomes the
\* detection at x = cx*TILE_SIZE + col*STRIDE, y = cy*TILE_SIZE + row*STRIDE
\* with the line's class and confidence; img_0_1.txt with the line
\* '0 0.5 0.5 0.2 0.2 0.8', tile 416, stride 104 gives (312, 208), 0.8, 0.
C9_ParsedPixelPosition ==
    (parsed # NotParsed /\ parsed.state = "ok") =>
        /\ Len(parsed.rows) = Len(label_file.lines)
        /\ \A k \in 1..Len(label_file.lines) :
              /\ parsed.rows[k][1]
                    = RAdd(RMul(FieldValue(k, 2), RInt(TILE_SIZE)), RInt(FileCol * STRIDE))
              /\ parsed.rows[k][2]
                    = RAdd(RMul(FieldValue(k, 3), RInt(TILE_SIZE)), RInt(FileRow * STRIDE))
              /\ parsed.rows[k][4] = FieldValue(k, 1)
              /\ Len(label_file.lines[k]) = 6 => parsed.rows[k][3] = FieldValue(k, 6)
        /\ ( /\ label_file.name = <<Img, <<"0">>, <<"1">>>>
             /\ TILE_SIZE = 416 /\ STRIDE = 104
             /\ Len(label_file.lines) >= 1
             /\ label_file.lines[1]
                  = <<Dec(0, 0), Dec(5, 1), Dec(5, 1), Dec(2, 1), Dec(2, 1), Dec(8, 1)>> )
           => /\ parsed.rows[1][1] = <<312, 1>>
              /\ parsed.rows[1][2] = <<208, 1>>
              /\ parsed.rows[1][3] = <<4, 5>>
              /\ parsed.rows[1][4] = <<0, 1>>

\* C9's case: img_0_1.txt with the example line has been parsed
C9_Witness ==
    /\ parsed # NotParsed
    /\ parsed.state = "ok"
    /\ label_file.name = <<Img, <<"0">>, <<"1">>>>
    /\ TILE_SIZE = 416 /\ STRIDE = 104
    /\ Len(parsed.rows) = 2
    /\ parsed.rows[1] = <<<<312, 1>>, <<208, 1>>, <<4, 5>>, <<0, 1>>,
                           <<416, 5>>, <<416, 5>>>>

(***************************************************************************)
(* Properties of the tiler (checked under SpecTiler).                      *)
(***************************************************************************)
RectSet == {rects[k] : k \in 1..Len(rects)}

\* the loops ran to their end over a png made by create_padded_png
TiledPaddedRaster == pc = "done" /\ img.padded

\* C4: once the tiler has gone through a padded raster, every pixel of the
\* padded raster lies in some tile rectangle the loops visited (skipped or
\* not), and no rectangle reaches outside the padded raster.
C4_TilesCoverPaddedRaster ==
    TiledPaddedRaster =>
        /\ \A x \in 0..(img.width - 1), y \in 0..(img.height - 1) :
              \E r \in RectSet : /\ r.left <= x /\ x < r.right
                                 /\ r.top <= y /\ y < r.bottom
        /\ \A r \in RectSet : /\ 0 <= r.left /\ r.right <= img.width
                               /\ 0 <= r.top /\ r.bottom <= img.height

\* C5: the loops visit (padded_height / stride) - (tile_size / stride) + 1 rows
\* and (padded_width / stride) - (tile_size / stride) + 1 columns.
C5_RowAndColumnCount ==
    TiledPaddedRaster =>
        /\ Cardinality({r.i : r \in RectSet})
              = (img.height \div STRIDE) - (TILE_SIZE \div STRIDE) + 1
        /\ Cardinality({r.j : r \in RectSet})
              = (img.width \div STRIDE) - (TILE_SIZE \div STRIDE) + 1

\* the image was opened and violates a divisibility precondition
PreconditionViolated ==
    /\ pc \notin {"start", "open"}
    /\ \/ img.width % STRIDE # 0
       \/ img.height % STRIDE # 0
       \/ TILE_SIZE % STRIDE # 0

\* C7: when the image width or height, or tile_size, is not divisible by
\* stride, the tiler ends in an error and no tile is ever written.
C7_IndivisibleRaisesBeforeAnyTile ==
    PreconditionViolated =>
        /\ tiles = <<>>
        /\ rects = <<>>
        /\ pc \in {"check", "error"}
        /\ pc = "error" =>
              err \in {"The image is not exactly divisible by the desired size of subset images",
                       "The subset image size indicated is not divisible by the input overlap size"}

\* C7's case: the height alone is indivisible and the tiler has raised
C7_Witness ==
    /\ pc = "error"
    /\ img.width % STRIDE = 0
    /\ img.height % STRIDE # 0
    /\ tiles = <<>>

\* the row and the column a tile's file name ends with
NameRow(t) == int(t.name[Len(t.name) - 1])
NameCol(t) == int(t.name[Len(t.name)])

\* C8: the tile written as <basename>_<i>_<j> is the crop at
\* (left, top) = (j*stride, i*stride), and tiles are written in row-major
\* order.
C8_OffsetNameAndOrder ==
    /\ \A k \in 1..Len(tiles) :
          /\ Len(tiles[k].name) = Len(img.base) + 2
          /\ SubSeq(tiles[k].name, 1, Len(img.base)) = img.base
          /\ is_int(tiles[k].name[Len(tiles[k].name) - 1])
          /\ is_int(tiles[k].name[Len(tiles[k].name)])
          /\ tiles[k].left = NameCol(tiles[k]) * STRIDE
          /\ tiles[k].top = NameRow(tiles[k]) * STRIDE
          /\ tiles[k].right = tiles[k].left + TILE_SIZE
          /\ tiles[k].bottom = tiles[k].top + TILE_SIZE
    /\ \A k, l \in 1..Len(tiles) :
          k < l => \/ NameRow(tiles[k]) < NameRow(tiles[l])
                   \/ /\ NameRow(tiles[k]) = NameRow(tiles[l])
                      /\ NameCol(tiles[k]) < NameCol(tiles[l])

\* C8's case: tiles of two rows and two columns were written, the last one
\* off the diagonal
C8_Witness ==
    /\ Len(tiles) >= 3
    /\ NameRow(tiles[Len(tiles)]) >= 1
    /\ NameCol(tiles[Len(tiles)]) >= 1
    /\ NameRow(tiles[Len(tiles)]) # NameCol(tiles[Len(tiles)])
    /\ STRIDE >= 2

(***************************************************************************)
(* Properties of the padding (checked under SpecPad).                      *)
(***************************************************************************)
\* the smallest non-negative amount that makes n a multiple of stride
Remainder(n) == (STRIDE - (n % STRIDE)) % STRIDE

\* the four amounts are the floor and ceiling halves plus the margin
PaddingHalves ==
    /\ padding[1] = (Remainder(tif.width) \div 2) + (TILE_SIZE - STRIDE)
    /\ padding[2] = ((Remainder(tif.width) + 1) \div 2) + (TILE_SIZE - STRIDE)
    /\ padding[3] = (Remainder(tif.height) \div 2) + (TILE_SIZE - STRIDE)
    /\ padding[4] = ((Remainder(tif.height) + 1) \div 2) + (TILE_SIZE - STRIDE)

PaddedToMultiple ==
    /\ (tif.width + padding[1] + padding[2]) % STRIDE = 0
    /\ (tif.height + padding[3] + padding[4]) % STRIDE = 0

\* C6 as stated: for every tile_size >= stride > 0 the padded width and height
\* are multiples of stride and the amounts are the floor/ceiling halves plus
\* the margin.
C6_PaddingMakesMultiples ==
    padding # NoPadding => PaddingHalves /\ PaddedToMultiple

\* C6 amended: the amounts are the floor/ceiling halves plus the margin for
\* every tile_size >= stride > 0; the padded width and height are multiples of
\* stride when twice the margin is one (as when stride divides tile_size).
C6_PaddingMakesMultiplesWhenMarginFits ==
    padding # NoPadding =>
        /\ PaddingHalves
        /\ (2 * (TILE_SIZE - STRIDE)) % STRIDE = 0 => PaddedToMultiple

\* C6's case: an odd remainder is split and a margin is added
C6_Witness ==
    /\ padding # NoPadding
    /\ Remainder(tif.width) % 2 = 1
    /\ TILE_SIZE > STRIDE
    /\ TILE_SIZE % STRIDE = 0
    /\ padding[2] = padding[1] + 1

\* C10: the (leftPad, topPad) pixel2latlong subtracts are the left and top
\* margins create_padded_png added to the same raster.
C10_SubtractedPadIsAddedPad ==
    (sub_pad # NoPadding /\ img.padded) =>
        /\ sub_pad.leftPad = img.padL
        /\ sub_pad.topPad = img.padT

\* C10's case: the raster was padded unevenly and pixel2latlong took its pads
C10_Witness ==
    /\ sub_pad # NoPadding
    /\ img.padded
    /\ img.padL # img.padR
    /\ img.padT # img.padB
    /\ img.padL # img.padT


(***************************************************************************)
(* The coordinate mapper run forward and back: one pixel of one raster is  *)
(* taken to its coordinate by pixel2coord and the coordinate is taken back *)
(* by coord2pixel.  The geotransforms are north-up, sheared and rotated.   *)
(***************************************************************************)
MaxPixel == 2

\* a * e - b * d of a geotransform
determinant(gt) == RSub(RMul(gt.a, gt.e), RMul(gt.b, gt.d))

GeoTransforms ==
    {gt \in [c : {RInt(0), RInt(10)}, a : {RInt(0), RInt(1), RInt(3)},
             b : {RInt(0), RInt(1)}, f : {RInt(0), RInt(5)},
             d : {RInt(0), RInt(2)}, e : {RInt(0), RInt(-1), RInt(-3)}] :
        determinant(gt) # RInt(0)}

MapFrame ==
    UNCHANGED <<tilerVars, padVars, parseVars, dayVars, clusterVars, orderVars>>

\* the tiler and the parser at rest
TilerIdle ==
    /\ TILE_SIZE = 416
    /\ STRIDE = 104
    /\ tif = [width |-> 1, height |-> 1, dark |-> FALSE, base |-> <<>>]
    /\ img = NoImage
    /\ pc = "idle"
    /\ seg_i = 0
    /\ seg_j = 0
    /\ rects = <<>>
    /\ tiles = <<>>
    /\ err = "none"
    /\ padding = NoPadding
    /\ sub_pad = NoPadding
    /\ label_file = NoFile
    /\ parsed = NotParsed

InitMapper ==
    /\ OrdersIdle
    /\ DayIdle
    /\ ClusterIdle
    /\ TilerIdle
    /\ geo \in GeoTransforms
    /\ pixel \in {<<RInt(x), RInt(y)>> : x \in 0..MaxPixel, y \in 0..MaxPixel}
    /\ coord = NotCalled
    /\ back = NotCalled

\* xp, yp = pixel2coord(x, y, tif)
Pixel2Coord ==
    /\ ~coord.called
    /\ coord' = Returned(pixel2coord(pixel[1], pixel[2], geo))
    /\ UNCHANGED <<geo, pixel, back>>
    /\ MapFrame

\* coord2pixel(xp, yp, tif)
Coord2Pixel ==
    /\ coord.called
    /\ ~back.called
    /\ back' = coord2pixel(coord.value[1], coord.value[2], geo)
    /\ UNCHANGED <<geo, pixel, coord>>
    /\ MapFrame

NextMapper ==
    \/ Pixel2Coord
    \/ Coord2Pixel

SpecMapper == InitMapper /\ [][NextMapper]_vars

(***************************************************************************)
(* The clusterer and the condenser on their own: cluster is called with    *)
(* some rows and a cutoff, and then process_clusters with what cluster     *)
(* returned or cluster again with two neighbouring rows exchanged.  The    *)
(* rows have six columns, as in process_tif, or a file name as the         *)
(* seventh, as in process_day.                                             *)
(***************************************************************************)
MaxRows == 3

\* x, y of the detections: three of them on a line, two at the same distance
\* from a third
ClusterPoints ==
    {<<RInt(0), RInt(0)>>, <<RInt(1), RInt(0)>>, <<RInt(0), RInt(1)>>,
     <<RInt(3), RInt(0)>>}

Cutoffs == {RInt(0), RInt(1), RInt(2), RInt(5)}

\* confidence, class, width, height and raster of a detection
DetectionKinds ==
    <<[conf |-> <<6, 10>>, class |-> RInt(0), w |-> RInt(1), h |-> RInt(3),
       file |-> RasterNames[1]],
      [conf |-> <<9, 10>>, class |-> RInt(1), w |-> RInt(2), h |-> RInt(1),
       file |-> RasterNames[2]],
      [conf |-> <<7, 10>>, class |-> RInt(2), w |-> RInt(4), h |-> RInt(4),
       file |-> RasterNames[1]]>>

\* which kind the k-th row is of, in four ways of mixing the kinds; the rows
\* of the second and the fourth are named after their raster
KindOf(mix, k) ==
    CASE mix = 1 -> 1
      [] mix = 2 -> 1 + (k % 2)
      [] mix = 3 -> 1 + (k % 3)
      [] OTHER   -> 1 + ((k \div 2) % 3)

\* a row of parse_classifications, of process_tif when named
DetectionRow(p, kind, named) ==
    IF named THEN <<p[1], p[2], kind.conf, kind.class, kind.w, kind.h, kind.file>>
    ELSE <<p[1], p[2], kind.conf, kind.class, kind.w, kind.h>>

DetectionRows(ps, mix, named) ==
    [k \in 1..Len(ps) |-> DetectionRow(ps[k], DetectionKinds[KindOf(mix, k)], named)]

\* the two detections of one boat at (100, 100) and (103, 101)
TwoSightings ==
    <<<<RInt(100), RInt(100), <<6, 10>>, RInt(0), RInt(8), RInt(4)>>,
      <<RInt(103), RInt(101), <<9, 10>>, RInt(0), RInt(10), RInt(6)>>>>

ClusterFrame ==
    UNCHANGED <<tilerVars, padVars, parseVars, dayVars, mapVars, orderVars>>

InitClusterer ==
    /\ OrdersIdle
    /\ DayIdle
    /\ MapIdle
    /\ TilerIdle
    /\ \/ \E n \in 0..MaxRows, mix \in 1..4 :
             \E ps \in [1..n -> ClusterPoints] :
                /\ detections = DetectionRows(ps, mix, mix % 2 = 0)
                /\ cut \in Cutoffs
       \/ detections = TwoSightings /\ cut = RInt(5)
    /\ tagged = NotCalled
    /\ reordered = [at |-> 0, rows |-> <<>>, tagged |-> NotCalled]
    /\ condensed = NotCalled

\* cluster(classifications, cutoff)
Cluster ==
    /\ ~tagged.called
    /\ tagged' = Returned(cluster(detections, cut))
    /\ UNCHANGED <<detections, cut, reordered, condensed>>
    /\ ClusterFrame

\* process_clusters(static_clusters)
ProcessClusters ==
    /\ tagged.called
    /\ ~condensed.called
    /\ reordered.at = 0
    /\ condensed' = Returned(process_clusters(tagged.value))
    /\ UNCHANGED <<detections, cut, tagged, reordered>>
    /\ ClusterFrame

\* rows k and k + 1 exchanged
exchanged(rows, k) ==
    [m \in 1..Len(rows) |->
        IF m = k THEN rows[k + 1] ELSE IF m = k + 1 THEN rows[k] ELSE rows[m]]

\* cluster(classifications, cutoff) for the same rows in another order
ClusterReordered ==
    /\ tagged.called
    /\ ~condensed.called
    /\ reordered.at = 0
    /\ \E k \in 1..(Len(detections) - 1) :
          reordered' = [at |-> k, rows |-> exchanged(detections, k),
                        tagged |-> Returned(cluster(exchanged(detections, k), cut))]
    /\ UNCHANGED <<detections, cut, tagged, condensed>>
    /\ ClusterFrame

NextClusterer ==
    \/ Cluster
    \/ ProcessClusters
    \/ ClusterReordered

SpecClusterer == InitClusterer /\ [][NextClusterer]_vars

(***************************************************************************)
(* Properties of the coordinate mapper.                                    *)
(***************************************************************************)
\* C11: coord2pixel is the exact inverse of pixel2coord: for every
\* geotransform with a non-zero determinant, the rotated and sheared ones
\* included, and every pixel (x, y), coord2pixel(pixel2coord(x, y)) returns
\* (x, y).
C11_Coord2PixelInvertsPixel2Coord ==
    back.called => back.error = "none" /\ back.value = pixel


(***************************************************************************)
(* Properties of the clusterer.                                            *)
(***************************************************************************)
\* rows i and j carry the same cluster id
SameCluster(rows, i, j) == rows[i][Len(rows[i])] = rows[j][Len(rows[j])]

\* where row m of the input is after rows k and k + 1 were exchanged
MovedTo(k, m) == IF m = k THEN k + 1 ELSE IF m = k + 1 THEN k ELSE m

\* the two calls of cluster put the same detections together
SamePartition ==
    \A i, j \in 1..Len(detections) :
        SameCluster(tagged.value, i, j)
            <=> SameCluster(reordered.tagged.value,
                            MovedTo(reordered.at, i), MovedTo(reordered.at, j))

\* C13: clustering is order-independent: for every cutoff >= 0, cluster
\* called with the rows in another order groups the same detections
\* together (the ids may differ), also when several pairwise distances are
\* equal.
C13_ClusteringIsOrderIndependent ==
    reordered.at # 0 => SamePartition


\* the Euclidean distance of rows a and b, from x and y alone
PositionDistance(rows, a, b) ==
    fixed_sqrt(RAdd(RMul(RSub(rows[a][1], rows[b][1]), RSub(rows[a][1], rows[b][1])),
                    RMul(RSub(rows[a][2], rows[b][2]), RSub(rows[a][2], rows[b][2]))))

\* the sum of the distances of the pairs
RECURSIVE DistanceSum(_, _)
DistanceSum(rows, pairs) ==
    IF pairs = {} THEN RInt(0)
    ELSE LET p == CHOOSE p \in pairs : TRUE
         IN  RAdd(PositionDistance(rows, p[1], p[2]), DistanceSum(rows, pairs \ {p}))

\* average linkage: the mean distance between the rows of two groups
MeanDistance(rows, A, B) ==
    RDiv(DistanceSum(rows, A \X B), RInt(Cardinality(A) * Cardinality(B)))

\* the pairs of groups, each with its mean distance
GroupPairs(rows, groups) ==
    {[A |-> p[1], B |-> p[2], d |-> MeanDistance(rows, p[1], p[2])] :
        p \in {q \in groups \X groups :
                   q[1] # q[2] /\ (CHOOSE k \in q[1] \cup q[2] :
                                      \A m \in q[1] \cup q[2] : k <= m) \in q[1]}}

\* the pairs at the least mean distance
Closest(pairs) == {p \in pairs : \A q \in pairs : RLe(p.d, q.d)}

\* agglomerative clustering cut at the cutoff: the closest two groups are
\* merged as long as their mean distance is <= cutoff; every way of choosing
\* among equally close pairs gives one of the partitions
RECURSIVE Agglomerate(_, _, _)
MergeClosest(rows, groups, cutoff, nearest) ==
    IF nearest = {} THEN {groups}
    ELSE IF \E p \in nearest : RLt(cutoff, p.d) THEN {groups}
    ELSE UNION {Agglomerate(rows, (groups \ {p.A, p.B}) \cup {p.A \cup p.B}, cutoff) :
                   p \in nearest}

Agglomerate(rows, groups, cutoff) ==
    MergeClosest(rows, groups, cutoff, Closest(GroupPairs(rows, groups)))

\* the groups of row numbers that share a cluster id
Groups(rows) ==
    {{k \in 1..Len(rows) : SameCluster(rows, k, m)} : m \in 1..Len(rows)}

\* the rows with nothing but their position left
PositionsOnly(rows) ==
    [k \in 1..Len(rows) |-> <<rows[k][1], rows[k][2], RInt(1), RInt(0), RInt(1), RInt(1)>>]

\* C12: for two or more detections cluster returns the flat partition of
\* average-linkage agglomerative clustering over the Euclidean distance of
\* (x, y), cut at the cutoff: two detections share a cluster id exactly when
\* the merge that first joins them happens at a distance <= cutoff, and the
\* confidence, class, size and file of the rows change nothing in it.
C12_AverageLinkageCutAtCutoff ==
    (tagged.called /\ ~condensed.called /\ reordered.at = 0
        /\ Len(detections) >= 2) =>
        /\ Groups(tagged.value)
              \in Agglomerate(detections, {{k} : k \in 1..Len(detections)}, cut)
        /\ Groups(tagged.value) = Groups(cluster(PositionsOnly(detections), cut))

\* three detections of different kinds, two of them merged and the third,
\* further away than the cutoff, left alone
C12_Witness ==
    /\ tagged.called
    /\ Len(detections) = 3
    /\ Cardinality(Groups(tagged.value)) = 2
    /\ \E i, j \in 1..3 : detections[i][4] # detections[j][4]
    /\ \E i, j \in 1..3 : i # j /\ RLt(RInt(0), pdist(detections)[i][j])
                                 /\ SameCluster(tagged.value, i, j)


\* the pairs of different rows
RowPairs(rows) == {p \in (1..Len(rows)) \X (1..Len(rows)) : p[1] < p[2]}

\* cutoff is below every pairwise distance
BelowMinimum(rows, cutoff) ==
    \A p \in RowPairs(rows) : RLt(cutoff, PositionDistance(rows, p[1], p[2]))

\* cutoff is above every pairwise distance
AboveMaximum(rows, cutoff) ==
    \A p \in RowPairs(rows) : RLt(PositionDistance(rows, p[1], p[2]), cutoff)

OneClusterEach(rows) == \A p \in RowPairs(rows) : ~SameCluster(rows, p[1], p[2])

OneClusterForAll(rows) == \A p \in RowPairs(rows) : SameCluster(rows, p[1], p[2])

\* C14 as stated: for two or more detections, cutoff 0 or any cutoff below
\* the minimum pairwise distance yields one cluster per detection, and a
\* cutoff above the maximum pairwise distance yields a single cluster.
C14_CutoffExtremes ==
    (tagged.called /\ Len(detections) >= 2) =>
        /\ (cut = RInt(0) \/ BelowMinimum(detections, cut))
              => OneClusterEach(tagged.value)
        /\ AboveMaximum(detections, cut) => OneClusterForAll(tagged.value)

\* C14, amended: for two or more detections, any cutoff below the minimum
\* pairwise distance yields one cluster per detection; with cutoff 0 two
\* detections share a cluster exactly when they are at the same (x, y); a
\* cutoff above the maximum pairwise distance yields a single cluster.
C14_CutoffExtremesApartFromCoincident ==
    (tagged.called /\ Len(detections) >= 2) =>
        /\ BelowMinimum(detections, cut) => OneClusterEach(tagged.value)
        /\ cut = RInt(0) =>
              \A p \in RowPairs(detections) :
                  SameCluster(tagged.value, p[1], p[2])
                      <=> PositionDistance(detections, p[1], p[2]) = RInt(0)
        /\ AboveMaximum(detections, cut) => OneClusterForAll(tagged.value)

\* three detections clustered with cutoff 0: two at the same place, which
\* share a cluster, and a third elsewhere, which is alone in its cluster
C14_Witness ==
    /\ tagged.called
    /\ Len(detections) = 3
    /\ cut = RInt(0)
    /\ \E p \in RowPairs(detections) :
          /\ PositionDistance(detections, p[1], p[2]) = RInt(0)
          /\ SameCluster(tagged.value, p[1], p[2])
    /\ Cardinality(Groups(tagged.value)) = 2


\* row k of the output is row k of the input with one cluster id appended
TaggedRow(out, rows, k) ==
    /\ Len(out[k]) = Len(rows[k]) + 1
    /\ SubSeq(out[k], 1, Len(rows[k])) = rows[k]
    /\ out[k][Len(out[k])] \in 1..Len(rows)

\* C15: cluster never fails on degenerate input: 0 detections give an empty
\* result, exactly 1 detection gives that detection tagged with cluster id
\* 1, and in every case the output has exactly one row, with exactly one
\* cluster id, per input detection.
C15_DegenerateInputIsTagged ==
    tagged.called =>
        /\ tagged.error = "none"
        /\ Len(tagged.value) = Len(detections)
        /\ \A k \in 1..Len(detections) : TaggedRow(tagged.value, detections, k)
        /\ Len(detections) = 1 => tagged.value = <<Append(detections[1], 1)>>

\* cluster was called with exactly one detection
C15_Witness ==
    /\ tagged.called
    /\ Len(detections) = 1
    /\ tagged.value[1][Len(tagged.value[1])] = 1


(***************************************************************************)
(* Properties of the condenser.                                            *)
(***************************************************************************)
\* the cluster ids cluster handed out
TaggedIds == {tagged.value[k][Len(tagged.value[k])] : k \in 1..Len(tagged.value)}

\* the numbers of the rows of one cluster
Members(id) ==
    {k \in 1..Len(tagged.value) : tagged.value[k][Len(tagged.value[k])] = id}

\* the sum of column c over the rows of the set
RECURSIVE MemberSum(_, _)
MemberSum(members, c) ==
    IF members = {} THEN RInt(0)
    ELSE LET k == CHOOSE k \in members : TRUE
         IN  RAdd(detections[k][c], MemberSum(members \ {k}, c))

\* v is the arithmetic mean of column c over the rows of the set
IsMean(v, members, c) == RMul(v, RInt(Cardinality(members))) = MemberSum(members, c)

\* v is the greatest value of column c over the rows of the set
IsMaximum(v, members, c) ==
    /\ \E k \in members : detections[k][c] = v
    /\ \A k \in members : RLe(detections[k][c], v)

\* process_clusters returned one record per cluster, the k-th for cluster id k
OneRecordPerCluster ==
    /\ condensed.error = "none"
    /\ TaggedIds = 1..Len(condensed.value)

\* C17: for every non-empty cluster condense returns one record whose x, y,
\* width and height are the arithmetic means over the cluster and whose
\* confidence is the maximum over the cluster; the record of a singleton
\* cluster equals its detection in position, confidence, class, width and
\* height; detections at (100, 100) and (103, 101) with confidences 0.6 and
\* 0.9 condense to (101.5, 100.5) with confidence 0.9.
C17_CondenseIsMeanAndMaxConfidence ==
    condensed.called =>
        /\ OneRecordPerCluster
        /\ \A id \in TaggedIds :
              /\ IsMean(condensed.value[id][1], Members(id), 1)
              /\ IsMean(condensed.value[id][2], Members(id), 2)
              /\ IsMaximum(condensed.value[id][3], Members(id), 3)
              /\ IsMean(condensed.value[id][5], Members(id), 5)
              /\ IsMean(condensed.value[id][6], Members(id), 6)
              /\ \A k \in Members(id) :
                    Members(id) = {k}
                        => SubSeq(condensed.value[id], 1, 6) = SubSeq(detections[k], 1, 6)
        /\ detections = TwoSightings =>
              /\ Len(condensed.value) = 1
              /\ condensed.value[1][1] = <<203, 2>>
              /\ condensed.value[1][2] = <<201, 2>>
              /\ condensed.value[1][3] = <<9, 10>>

\* the detections at (100, 100) and (103, 101), clustered and condensed
C17_Witness ==
    /\ condensed.called
    /\ detections = TwoSightings
    /\ Members(1) = {1, 2}
    /\ Len(condensed.value) = 1


\* how many rows of the set are of class v
ClassCount(members, v) == Cardinality({k \in members : detections[k][4] = v})

\* the classes of the rows of the set
ClassesOf(members) == {detections[k][4] : k \in members}

\* C18: the class of a condensed record is the class occurring most often
\* in the cluster, the lowest-numbered one when two classes occur equally
\* often, and always one of the classes present in the cluster.
C18_ClassIsMostCommonLowestOnTie ==
    condensed.called =>
        \A id \in TaggedIds :
            /\ condensed.value[id][4] \in ClassesOf(Members(id))
            /\ \A v \in ClassesOf(Members(id)) :
                  \/ ClassCount(Members(id), v)
                        < ClassCount(Members(id), condensed.value[id][4])
                  \/ /\ ClassCount(Members(id), v)
                          = ClassCount(Members(id), condensed.value[id][4])
                     /\ RLe(condensed.value[id][4], v)

\* a condensed cluster in which classes 1 and 2 occur equally often
C18_Witness ==
    /\ condensed.called
    /\ \E id \in TaggedIds :
          /\ ClassesOf(Members(id)) = {RInt(1), RInt(2)}
          /\ ClassCount(Members(id), RInt(1)) = ClassCount(Members(id), RInt(2))
          /\ condensed.value[id][4] = RInt(1)


\* the rows handed to cluster carry the name of their raster
Named == Len(detections) > 0 /\ Len(detections[1]) = 7

\* the names are in ascending order, none of them twice
Ascending(names) ==
    \A i, j \in 1..Len(names) : i < j => str_lt(join(names[i]), join(names[j]))

\* C19: after the day-level condensation the source-identifier field of a
\* record is the deduplicated union of the raster file names of all the
\* detections merged into it: each contributing name exactly once, in an
\* order that does not depend on the order of the input, joined by spaces.
C19_SourcesAreDeduplicatedUnion ==
    (condensed.called /\ Named) =>
        \A id \in TaggedIds :
            /\ Len(condensed.value[id]) = 7
            /\ {condensed.value[id][7][m] : m \in 1..Len(condensed.value[id][7])}
                  = {detections[k][7] : k \in Members(id)}
            /\ Ascending(condensed.value[id][7])

\* a condensed cluster of three detections from two rasters
C19_Witness ==
    /\ condensed.called
    /\ Named
    /\ \E id \in TaggedIds :
          /\ Cardinality(Members(id)) = 3
          /\ Len(condensed.value[id][7]) = 2


(***************************************************************************)
(* Properties of the two clustering passes of the orchestrator.            *)
(***************************************************************************)
\* every row is of class k
AllOfClass(rows, k) == \A m \in 1..Len(rows) : rows[m][4] = RInt(k)

\* process_tif got as far as clustering
Clustered(t) == t.file # <<>> /\ Len(t.classifications) > 0

\* the per-raster pass of one process_tif call: the static rows clustered
\* with the static cutoff, the moving rows with the moving cutoff
PerRasterPassSeparate(t) ==
    /\ AllOfClass(t.static_clusters, 0)
    /\ AllOfClass(t.moving_clusters, 1)
    /\ t.static_clusters
          = cluster(of_class(t.classifications, 0), cfg.STAT_DISTANCE_CUTOFF_PIX)
    /\ t.moving_clusters
          = cluster(of_class(t.classifications, 1), cfg.MOVING_DISTANCE_CUTOFF_PIX)

\* the day-level pass: the static boats clustered with the static lat/long
\* cutoff, the moving boats with the moving one
DayPassSeparate ==
    /\ AllOfClass(day_pass.static_clusters, 0)
    /\ AllOfClass(day_pass.moving_clusters, 1)
    /\ day_pass.static_clusters
          = cluster(day_pass.all_static_boats, cfg.STAT_DISTANCE_CUTOFF_LATLONG)
    /\ day_pass.moving_clusters
          = cluster(day_pass.all_moving_boats, cfg.MOVING_DISTANCE_CUTOFF_LATLONG)

\* C16: in process_tif the static (class 0) and the moving (class 1)
\* detections are clustered in separate cluster calls, static with
\* stat_cutoff and moving with moving_cutoff, so that no cluster of the
\* per-raster pass holds detections of two classes; the day-level pass
\* likewise clusters the static and the moving set separately, each with
\* its own lat/long cutoff.
C16_ClassesClusteredSeparately ==
    /\ Clustered(last_tif) => PerRasterPassSeparate(last_tif)
    /\ day_pass.done => DayPassSeparate

\* a raster with static and moving detections went through both passes
C16_Witness ==
    /\ day_pass.done
    /\ Len(returns[1].static_clusters) > 0
    /\ Len(returns[1].moving_clusters) > 0
    /\ Len(day_pass.static_clusters) > 0
    /\ Len(day_pass.moving_clusters) > 0


(***************************************************************************)
(* Properties of the confidence filter.                                    *)
(***************************************************************************)
\* the rows of a sequence, as a set
RowSet(rows) == {rows[k] : k \in 1..Len(rows)}

\* every parsed detection is in exactly one of the two sets returned: in the
\* low-confidence set when its confidence is < threshold, in the kept set
\* otherwise
SplitAtThreshold(t) ==
    /\ \A d \in RowSet(t.all_cs) \cup RowSet(t.classifications) \cup RowSet(t.low_confidence) :
          /\ Occurrences(t.all_cs, d)
                = Occurrences(t.classifications, d) + Occurrences(t.low_confidence, d)
          /\ Occurrences(t.low_confidence, d)
                = IF RLt(d[3], cfg.CONFIDENCE_THRESHOLD) THEN Occurrences(t.all_cs, d) ELSE 0

\* what is clustered comes from the kept set
ClusteredFromKept(t) ==
    RowSet(without_cluster(t.static_clusters)) \cup RowSet(without_cluster(t.moving_clusters))
        \subseteq RowSet(t.classifications)

\* C20: remove_low_confidence partitions its input: every detection is in
\* exactly one of the two sets returned, in the low-confidence set exactly
\* when its confidence is < threshold and in the kept set otherwise; only
\* the kept set goes on to clustering, and read_classifications returns the
\* low-confidence set as well.
C20_LowConfidencePartition ==
    last_tif.file # <<>> =>
        /\ SplitAtThreshold(last_tif)
        /\ ClusteredFromKept(last_tif)

\* detections of one raster below, at and above the threshold, the kept ones
\* clustered
C20_Witness ==
    /\ last_tif.file # <<>>
    /\ \E d \in RowSet(last_tif.low_confidence) : RLt(d[3], cfg.CONFIDENCE_THRESHOLD)
    /\ \E d \in RowSet(last_tif.classifications) : d[3] = cfg.CONFIDENCE_THRESHOLD
    /\ \E d \in RowSet(last_tif.classifications) : RLt(cfg.CONFIDENCE_THRESHOLD, d[3])
    /\ Len(last_tif.static_clusters) > 0
    /\ Len(last_tif.moving_clusters) > 0


(***************************************************************************)
(* Properties of the parser on empty, missing and malformed files          *)
(* (checked under SpecParse).                                              *)
(***************************************************************************)
\* parse_classifications returned no detection and raised nothing
ParsedEmpty == parsed.state = "ok" /\ parsed.rows = <<>>

\* C21: parsing an empty label file, or a label file that does not exist,
\* yields an empty sequence of detections and no error.
C21_EmptyOrMissingFileParsesEmpty ==
    (parsed # NotParsed /\ (~label_file.exists \/ label_file.lines = <<>>))
        => ParsedEmpty

\* a line of five or of six fields
WellFormed(line) == Len(line) \in {5, 6}

\* the well-formed lines of the file, in their order
WellFormedLines == SelectSeq(label_file.lines, WellFormed)

\* C22: a label line with an unexpected field count (neither 5 nor 6
\* fields) is skipped and parsing continues: all well-formed lines of the
\* file are returned as detections, and the parse never aborts over a bad
\* line.
C22_BadLineSkipped ==
    (parsed # NotParsed /\ label_file.exists) =>
        /\ parsed.state = "ok"
        /\ Len(parsed.rows) = Len(WellFormedLines)
        /\ \A k \in 1..Len(WellFormedLines) :
              parsed.rows[k] = parse_row(WellFormedLines[k], FileCol * STRIDE,
                                         FileRow * STRIDE, TILE_SIZE)


(***************************************************************************)
(* Properties of the coordinate mapper inside process_tif (checked under   *)
(* SpecDay).                                                               *)
(***************************************************************************)
\* the raster of tif_dir with this name
RasterOf(base) ==
    CHOOSE r \in {allFiles[k] : k \in 1..Len(allFiles)} : r.base = base

\* the coordinate of a condensed record in the raster it was found in
CoordOf(record, r) ==
    pixel2coord(
        RSub(record[1],
             RInt(pixel2latlong_pads(r.width, r.height, TILE_SIZE, STRIDE).leftPad)),
        RSub(record[2],
             RInt(pixel2latlong_pads(r.width, r.height, TILE_SIZE, STRIDE).topPad)),
        r.gt)

\* the boat is at the (long, lat) of the coordinate p under the CRS code crs
LocatedAt(boat, p, crs) == <<boat[1], boat[2]>> = coord2latlong(p[1], p[2], crs)

\* boat k of the boats returned is the k-th condensed record taken to
\* (long, lat) with the CRS code crs, and named after the raster
LocatedWith(boats, records, r, crs, k) ==
    /\ LocatedAt(boats[k], CoordOf(records[k], r), crs)
    /\ boats[k][7] = r.base

AllLocatedWith(boats, records, r, crs) ==
    /\ Len(boats) = Len(records)
    /\ \A k \in 1..Len(boats) : LocatedWith(boats, records, r, crs, k)

\* what process_tif returned for a raster, against the CRS of its metadata
MappedWithOwnCrs(t, r) ==
    IF r.crs = 0
        THEN /\ t.error = "Exception"
             /\ t.static_boats = <<>>
             /\ t.moving_boats = <<>>
    ELSE /\ t.error = "none"
         /\ AllLocatedWith(t.static_boats, process_clusters(t.static_clusters), r, r.crs)
         /\ AllLocatedWith(t.moving_boats, process_clusters(t.moving_clusters), r, r.crs)

\* C23: coordinate mapping of a raster with no discoverable CRS fails with
\* an error for that raster: pixel2latlong converts no detection with a
\* hard-coded or default CRS when the metadata carries none, and the CRS of
\* every conversion is the one read from that raster's metadata.
C23_NoCrsNoConversion ==
    Clustered(last_tif) => MappedWithOwnCrs(last_tif, RasterOf(last_tif.file))

\* process_tif reached pixel2latlong with detections of a raster whose
\* metadata has no CRS
C23_Witness ==
    /\ Clustered(last_tif)
    /\ RasterOf(last_tif.file).crs = 0
    /\ Len(last_tif.static_clusters) > 0
    /\ last_tif.error = "Exception"


(***************************************************************************)
(* Properties of the order of archiving and writing (checked under         *)
(* SpecDay).                                                               *)
(***************************************************************************)
\* C24: a raster reaches Archived (is moved into the processed folder) only
\* after its detections have been Written to the CSV: in no execution is a
\* raster moved to processed while the detections of its day are not yet
\* written.
C24_ArchivedOnlyAfterWritten ==
    \A base \in processed : get_date_from_filename(base) \in written


(***************************************************************************)
(* Properties of boat_detections.csv (checked under SpecDay).              *)
(***************************************************************************)
\* the header is the first line and no other line is a header
HeaderOnce ==
    csv # NoCsv =>
        /\ csv[1] = Header
        /\ \A k \in 2..Len(csv) : csv[k].kind = "row"

\* the lines of the file before a call, with the header a call writes first
\* when there is no file
LinesBefore == IF csv = NoCsv THEN <<Header>> ELSE csv

\* the boats the call of this step is handed
BoatsWritten ==
    IF phase = "write_static" THEN day_pass.static_boats ELSE day_pass.moving_boats

\* line k after the old lines is the row of boat k
RowOfBoat(line, boat) ==
    /\ line.kind = "row"
    /\ line.date = day
    /\ line.images = boat[7]
    /\ line.longitude = boat[1]
    /\ line.latitude = boat[2]
    /\ line.confidence = boat[3]

\* a step that changes the file keeps its lines and appends one row per boat
\* handed to the call, in their order
AppendsRows ==
    csv' # csv =>
        /\ phase \in {"write_static", "write_moving"}
        /\ Len(csv') = Len(LinesBefore) + Len(BoatsWritten)
        /\ SubSeq(csv', 1, Len(LinesBefore)) = LinesBefore
        /\ \A k \in 1..Len(BoatsWritten) :
              RowOfBoat(csv'[Len(LinesBefore) + k], BoatsWritten[k])

\* C25: after any sequence of write_to_csv calls on the same output file the
\* file holds the header exactly once, as its first line, followed by one
\* row per condensed detection of every call in call order; rows written by
\* earlier calls are never rewritten or removed.
C25_HeaderOnceRowsAppended == []HeaderOnce /\ [][AppendsRows]_vars

\* two days written to a file that an earlier run had created
C25_Witness ==
    /\ Cardinality(written) = 2
    /\ Len(csv) >= 3
    /\ \E i, j \in 2..Len(csv) : csv[i].date # csv[j].date


(***************************************************************************)
(* Properties of the temporary directories (checked under SpecDay).        *)
(***************************************************************************)
\* the raster a tile was cut from
RasterOfTile(tile) == SubSeq(tile, 1, Len(tile) - 2)

\* C26: the tile directory is created empty before each detector invocation
\* of detect_from_tif: when the detector runs for a raster the directory
\* holds only tiles cut from that raster, never one left over from a raster
\* processed before.  (Nothing touches the directory between the detector
\* and the next detect_from_tif, so it is read in the state process_tif
\* leaves.)
C26_OnlyTilesOfThisRaster ==
    (last_tif # NoTif /\ phase # "done") =>
        /\ TEMP.exists
        /\ \A tile \in TEMP.files : RasterOfTile(tile) = last_tif.file

\* the detector has run on the tiles of a second raster of the run
C26_Witness ==
    /\ Cardinality(classified) >= 2
    /\ phase = "process_day"
    /\ last_tif.error = "none"
    /\ TEMP.files # {}

\* C27: the temporary working directories are cleaned up on every exit path
\* of a classifier run: whenever main terminates, whether classify_directory
\* completed or raised, neither Boat_Temp nor Boat_Temp_PNG remains.
C27_TempDirsRemovedOnEveryExit ==
    phase \in {"done", "aborted"} => (~TEMP.exists /\ ~TEMP_PNG.exists)


(***************************************************************************)
(* Properties of the day batches (checked under SpecDay).                  *)
(***************************************************************************)
\* the entries of the directory and of the batch of the day, as sets
Entries == {allFiles[k] : k \in 1..Len(allFiles)}
Batch == {files[k] : k \in 1..Len(files)}

\* the token before the first "_" of the name, when it has 8 characters
HasDateToken(entry) == Len(entry.base[1]) = 8

\* while a day is processed or written, its batch is not empty and holds the
\* entries with the date token of that day, each once, and no other entry
BatchIsOneDate ==
    phase \in {"process_day", "write_static", "write_moving"} =>
        /\ Batch # {}
        /\ Cardinality(Batch) = Len(files)
        /\ \A e \in Batch, f \in Entries :
              f \in Batch <=> (HasDateToken(f) /\ f.base[1] = e.base[1])

\* when classify_directory returns, a day has been written for every entry
\* with a date token, and only for those
EveryDateWritten ==
    phase = "done" =>
        /\ \A f \in Entries : HasDateToken(f) =>
              get_date_from_filename(f.base) \in written
        /\ Cardinality(written)
              = Cardinality({f.base[1] : f \in {g \in Entries : HasDateToken(g)}})

\* a step to another day: that day has not been processed before, and the
\* day left has been written
OneDayAfterTheOther ==
    day' # day =>
        /\ day' \notin written
        /\ day # None => day \in written

\* C30: classify_directory partitions the entries of the directory by
\* acquisition date: every entry whose name starts with an 8-character token
\* before the first "_" belongs to exactly one day batch, the one of that
\* date; entries without such a token belong to none; each distinct day is
\* processed exactly once; and the results of a day are written before the
\* next day is processed.
C30_DayBatchesPartition ==
    [](BatchIsOneDate /\ EveryDateWritten) /\ [][OneDayAfterTheOther]_vars

\* a run over rasters of two days beside the processed folder has returned
C30_Witness ==
    /\ phase = "done"
    /\ Cardinality(written) = 2
    /\ Len(allFiles) = 4
    /\ \E f \in Entries : ~HasDateToken(f)


(***************************************************************************)
(* The order history: order, download, count, save (auto_helpers.py,       *)
(* CountTheBoats.py).  Dates, area names and file names are strings, as    *)
(* sequences of characters.                                                *)
(***************************************************************************)
MaxOrders == 2

\* "2023-01-01" and "2023-01-02"
OrderDates ==
    <<<<"2", "0", "2", "3", "-", "0", "1", "-", "0", "1">>,
      <<"2", "0", "2", "3", "-", "0", "1", "-", "0", "2">>>>

\* the areas of interest: "p", and "s_b" with an underscore in its name
Aois == <<<<"p">>, <<"s", "_", "b">>>>

\* the orders a run may place, in the order full_auto goes through them:
\* area after area, date after date
Orderable ==
    <<[aoi |-> Aois[1], date |-> OrderDates[1]],
      [aoi |-> Aois[1], date |-> OrderDates[2]],
      [aoi |-> Aois[2], date |-> OrderDates[1]],
      [aoi |-> Aois[2], date |-> OrderDates[2]]>>

\* the start_date and end_date a download run is called with
Windows ==
    {<<None, None>>, <<OrderDates[2], None>>, <<None, OrderDates[1]>>}

\* date.replace("-", "")
replace_dash(date) ==
    LET kept(c) == c # "-"
    IN  SelectSeq(date, kept)

\* f"{row['date'].replace('-','')}_{row['aoi']}"
new_file_of(row) == replace_dash(row.date) \o <<"_">> \o row.aoi

\* new_file[:4] + "-" + new_file[4:6] + "-" + new_file[6:8]
date_of_new_file(new_file) ==
    SubSeq(new_file, 1, 4) \o <<"-">> \o SubSeq(new_file, 5, 6) \o <<"-">>
        \o SubSeq(new_file, 7, 8)

\* "_".join(new_file.split("_")[1:])
aoi_of_new_file(new_file) ==
    IF \A k \in 1..Len(new_file) : new_file[k] # "_" THEN <<>>
    ELSE SubSeq(new_file,
                1 + CHOOSE k \in 1..Len(new_file) :
                        /\ new_file[k] = "_"
                        /\ \A m \in 1..(k - 1) : new_file[m] # "_",
                Len(new_file))

\* the raster PlanetDownload moves into the raw-images directory for an order
raster_of(row) == new_file_of(row) \o <<".", "t", "i", "f">>

\* history[history["order_id"] == id].iloc[0]
this_order(h, id) ==
    h[CHOOSE k \in 1..Len(h) :
        /\ h[k].order_id = id
        /\ \A m \in 1..(k - 1) : h[m].order_id # id]

\* id in history[history["order_status"].isin(statuses)]["order_id"].tolist()
has_status(h, id, statuses) ==
    \E k \in 1..Len(h) : h[k].order_id = id /\ h[k].order_status \in statuses

\* the start_date and end_date checks of download; None is no bound
in_window(date, start_date, end_date) ==
    /\ start_date = None \/ int(replace_dash(date)) >= int(replace_dash(start_date))
    /\ end_date = None \/ int(replace_dash(date)) <= int(replace_dash(end_date))

\* download without the look at the order_status, for comparison
to_download_again(h, os, start_date, end_date) ==
    {os[k].id : k \in {n \in 1..Len(os) :
        /\ os[n].state = "success"
        /\ has_status(h, os[n].id, {"ordered", "downloaded", "complete"})
        /\ in_window(this_order(h, os[n].id).date, start_date, end_date)}}

\* download: the orders PlanetDownload is called for
to_download(h, os, start_date, end_date) ==
    {os[k].id : k \in {n \in 1..Len(os) :
        /\ os[n].state = "success"
        /\ ~has_status(h, os[n].id, {"downloaded", "complete"})
        /\ has_status(h, os[n].id, {"ordered"})
        /\ in_window(this_order(h, os[n].id).date, start_date, end_date)}}

\* history.loc[history["order_id"] == id, "order_status"] = status, for the
\* ids of a set
set_status(h, ids, status) ==
    [k \in 1..Len(h) |->
        IF h[k].order_id \in ids THEN [h[k] EXCEPT !.order_status = status]
        ELSE h[k]]

\* save: the orders whose status is set to complete
to_complete(h, raw) ==
    LET new       == {h[k] : k \in {n \in 1..Len(h) : h[n].order_status = "downloaded"}}
        new_files == {new_file_of(row) : row \in new}
        right_date(new_file) ==
            {k \in 1..Len(h) : /\ h[k].aoi = aoi_of_new_file(new_file)
                               /\ h[k].date = date_of_new_file(new_file)}
        first(rows) == CHOOSE k \in rows : \A m \in rows : k <= m
    IN  {h[first(right_date(new_file))].order_id :
            new_file \in {f \in new_files : f \notin raw /\ right_date(f) # {}}}

\* what the order actions leave alone
OrderFrame ==
    UNCHANGED <<tilerVars, padVars, parseVars, dayVars, mapVars, clusterVars>>

\* no order in the history; Planet may hold an order the history does not
\* know (new_order places one without a row)
InitOrders ==
    /\ DayIdle
    /\ MapIdle
    /\ ClusterIdle
    /\ TilerIdle
    /\ history = <<>>
    /\ \E unknown \in BOOLEAN :
          orders = IF unknown THEN <<[id |-> 0, state |-> "success"]>> ELSE <<>>
    /\ RawImages = {}
    /\ calls = {}

\* search, select, order: an order for a date the history does not hold for
\* the area yet; Planet hands out the id
Order ==
    /\ Len(history) < MaxOrders
    /\ \E n \in 1..Len(Orderable) :
          /\ \A k \in 1..Len(history), m \in n..Len(Orderable) :
                ~(/\ history[k].aoi = Orderable[m].aoi
                  /\ history[k].date = Orderable[m].date)
          /\ history' = Append(history,
                               [order_id |-> Len(history) + 1,
                                aoi |-> Orderable[n].aoi,
                                date |-> Orderable[n].date,
                                order_status |-> "ordered"])
          /\ orders' = Append(orders, [id |-> Len(history) + 1, state |-> "queued"])
    /\ UNCHANGED <<RawImages, calls>>
    /\ OrderFrame

\* Planet: a queued order succeeds or fails
Planet ==
    /\ \E k \in 1..Len(orders), state \in {"success", "failed"} :
          /\ orders[k].state = "queued"
          /\ orders' = [orders EXCEPT ![k].state = state]
    /\ UNCHANGED <<history, RawImages, calls>>
    /\ OrderFrame

\* download: PlanetDownload for every order to download; the ones it raises
\* for are passed over, the others are set to downloaded.  PlanetDownload
\* raises before or after it has moved the raster (`left`: after)
Download ==
    /\ \E w \in Windows :
          \E raises \in SUBSET to_download(history, orders, w[1], w[2]),
             left \in BOOLEAN :
              /\ calls' = {[id |-> id,
                            status |-> this_order(history, id).order_status,
                            state |-> "success",
                            raised |-> id \in raises] :
                           id \in to_download(history, orders, w[1], w[2])}
              /\ history' = set_status(history,
                                       {c.id : c \in {d \in calls' : ~d.raised}},
                                       "downloaded")
              /\ RawImages' = RawImages \cup
                                {raster_of(this_order(history, c.id)) :
                                    c \in {d \in calls' : ~d.raised \/ left}}
    /\ UNCHANGED orders
    /\ OrderFrame

\* count: the classifier moves the rasters it has processed to the processed
\* folder; a raster without a detection, and every raster from the one that
\* raises on, stays in the raw-images directory
Count ==
    /\ RawImages # {}
    /\ \E kept \in SUBSET RawImages : RawImages' = kept
    /\ UNCHANGED <<history, orders, calls>>
    /\ OrderFrame

\* save: every downloaded order whose new_file is not in the raw-images
\* directory is set to complete
Save ==
    /\ history' = set_status(history, to_complete(history, RawImages), "complete")
    /\ UNCHANGED <<orders, RawImages, calls>>
    /\ OrderFrame

NextOrders ==
    \/ Order
    \/ Planet
    \/ Download
    \/ Count
    \/ Save

SpecOrders == InitOrders /\ [][NextOrders]_vars

(***************************************************************************)
(* Properties of the order history (checked under SpecOrders).             *)
(***************************************************************************)
\* the order_status of the order with an id
StatusOf(id) == this_order(history, id).order_status

\* every PlanetDownload call of the latest download run was made for an
\* order that was ordered in the history and a success at Planet; the ones
\* that raised are still ordered, the others are not
CallsWhileOrdered ==
    \A c \in calls :
        /\ c.status = "ordered"
        /\ c.state = "success"
        /\ c.raised => StatusOf(c.id) = "ordered"
        /\ ~c.raised => StatusOf(c.id) \in {"downloaded", "complete"}

\* the rows stay, and a status that changes goes from ordered to downloaded
\* or from downloaded to complete
StatusForward ==
    /\ Len(history') >= Len(history)
    /\ \A k \in 1..Len(history) :
          /\ history'[k].order_id = history[k].order_id
          /\ \/ history'[k].order_status = history[k].order_status
             \/ /\ history[k].order_status = "ordered"
                /\ history'[k].order_status = "downloaded"
             \/ /\ history[k].order_status = "downloaded"
                /\ history'[k].order_status = "complete"

C29_CompleteOnlyIfRasterMoved ==
    [][\A k \in 1..Len(history) :
          (/\ history[k].order_status = "downloaded"
           /\ raster_of(history[k]) \in RawImages)
              => history'[k].order_status = "downloaded"]_vars

=============================================================================
